---- MODULE Spec2Model ----
(***************************************************************************)
(* Model of the deepeval judge-call metric pipelines (BiasMetric,          *)
(* FaithfulnessMetric, SummarizationMetric), of the asyncio event loop     *)
(* that runs their a_measure coroutines, and of the batch orchestrator of  *)
(* deepeval/metrics/indicator.py.                                          *)
(*                                                                         *)
(* Conventions.                                                            *)
(*   Optional values: None is <<>>, a present value v is <<v>>.            *)
(*   Numbers that Python computes by true division are exact fractions     *)
(*   <<n, d>> in lowest terms (d > 0).                                     *)
(*   A verdict label is the string the judge returned, kept as a sequence  *)
(*   of one-character strings so that strip() and lower() are computed.    *)
(***************************************************************************)
EXTENDS Integers, Sequences, FiniteSets, Bags, TLC

VARIABLES
    metric,    \* metric objects: the plain instance attributes of each one
    task,      \* asyncio tasks running a_measure / measure_metric_task
    calls,     \* every judge-model call issued so far, in order
    world,     \* what the judge model answers, per test case
    caller,    \* the synchronous caller: its position and what it was returned
    reads      \* stage-output reads seen so far: <<reader, variable, writer>>

vars == <<metric, task, calls, world, caller, reads>>

----------------------------------------------------------------------------
(* Bounds of the model.                                                    *)

MaxVerdicts == 2      \* longest verdict list the judge returns (beyond the spec's examples)
NumTasks == 2         \* evaluations gathered on one shared metric
MaxQuestions == 2     \* longest assessment-question list
NumMetrics == 2       \* metrics handed to measure_metrics_with_indicator
MaxQueries == 1       \* calls of is_successful in one run
MaxCalls == 2      \* calls of track() that the caller makes

----------------------------------------------------------------------------
(* Optional values and exact fractions.                                    *)

None == <<>>
Some(v) == <<v>>
IsNone(o) == o = <<>>
The(o) == o[1]

RECURSIVE GCD(_, _)
GCD(a, b) == IF b = 0 THEN a ELSE GCD(b, a % b)

\* n / d of Python's true division, for n >= 0 and d > 0
Frac(n, d) == LET g == GCD(n, d) IN <<n \div g, d \div g>>
Zero == Frac(0, 1)
One == Frac(1, 1)
Half == Frac(1, 2)
Leq(a, b) == a[1] * b[2] <= b[1] * a[2]
Lt(a, b) == a[1] * b[2] < b[1] * a[2]
\* Python's min(a, b): b only when b < a
PyMin(a, b) == IF Lt(b, a) THEN b ELSE a

\* format(score, ".2f"): the score in hundredths, rounded half to even
Format2f(f) ==
    LET q == (100 * f[1]) \div f[2]
        r == (100 * f[1]) % f[2]
    IN  IF 2 * r > f[2] THEN q + 1
        ELSE IF 2 * r < f[2] THEN q
        ELSE IF q % 2 = 0 THEN q ELSE q + 1

----------------------------------------------------------------------------
(* Verdict labels: str.strip() and str.lower().                            *)

Upper == {"Y", "E", "S", "N", "O"}
LowerOf == [c \in Upper |->
              CASE c = "Y" -> "y" [] c = "E" -> "e" [] c = "S" -> "s"
                [] c = "N" -> "n" [] c = "O" -> "o"]

\* str.lower()
lower(s) == [i \in 1..Len(s) |-> IF s[i] \in Upper THEN LowerOf[s[i]] ELSE s[i]]

RECURSIVE lstrip(_)
lstrip(s) == IF s # <<>> /\ Head(s) = " " THEN lstrip(Tail(s)) ELSE s

RECURSIVE rstrip(_)
rstrip(s) == IF s # <<>> /\ s[Len(s)] = " " THEN rstrip(SubSeq(s, 1, Len(s) - 1)) ELSE s

\* str.strip()
strip(s) == rstrip(lstrip(s))

yes == <<"y", "e", "s">>
no == <<"n", "o">>
idk == <<"i", "d", "k">>

\* the labels the judge may put in a verdict
RawLabels ==
    { yes, no, idk,
      <<" ", "Y", "e", "s", " ">>,     \* " Yes "
      <<"N", "O", " ">>,               \* "NO "
      <<"y", " ", "e", "s">> }         \* "y es": not a yes

----------------------------------------------------------------------------
(* Test cases, texts and the judge model.                                  *)
(*                                                                         *)
(* Every piece of text is a token <<kind, test case, index>>.  The judge   *)
(* is a deterministic function of the prompt it is sent; what it says      *)
(* about the texts of test case c is world[c].                             *)

Text(kind, c) == <<kind, c, 0>>
TestCase(c) == [input |-> Text("input", c),
                actual_output |-> Text("actual_output", c),
                retrieval_context |-> Text("retrieval_context", c)]

\* LLMTestCaseParams: the fields of a test case a metric may require
Params == {"input", "actual_output", "retrieval_context"}

\* a module whose required_params is empty
required_params_none(kind) == {}

\* required_params of each metric module
required_params(kind) ==
    IF kind = "Faithfulness" THEN {"input", "actual_output", "retrieval_context"}
    ELSE {"input", "actual_output"}

\* check_llm_test_case_params(test_case, required_params, self): TRUE when
\* every required field of test case c is present, otherwise it raises
check_llm_test_case_params(c, kind) == required_params(kind) \subseteq world[c].given

Prompt(stage, text, items, more, extra, score) ==
    [stage |-> stage, text |-> text, items |-> items, more |-> more,
     extra |-> extra, score |-> score]
NoText == <<"", 0, 0>>
NoPrompt == Prompt("", NoText, <<>>, <<>>, <<>>, 0)

\* BiasTemplate.generate_opinions -> data["opinions"]
JudgeOpinions(w, p) ==
    [i \in 1..Len(w[p.text[2]].labels) |-> <<"opinion", p.text[2], i>>]

\* FaithfulnessTemplate.generate_truths -> data["truths"]
JudgeTruths(w, p) == << <<"truth", p.text[2], 1>> >>

\* FaithfulnessTemplate.generate_claims -> data["claims"]: the claims of an
\* actual output are the ones the verdicts are about; an input has one claim
JudgeClaims(w, p) ==
    IF p.text[1] = "actual_output"
    THEN [i \in 1..Len(w[p.text[2]].labels) |-> <<"claim", p.text[2], i>>]
    ELSE << <<"truth", p.text[2], 1>> >>

\* generate_verdicts / generate_alignment_verdicts -> data["verdicts"]: one
\* verdict per item; an item judged against another test case's truths is "idk"
JudgeVerdicts(w, p) ==
    [i \in 1..Len(p.items) |->
        LET it == p.items[i]
            own == \A k \in 1..Len(p.more) : p.more[k][2] = it[2]
        IN  [verdict |-> IF own /\ it[3] \in 1..Len(w[it[2]].labels)
                         THEN w[it[2]].labels[it[3]] ELSE idk,
             reason |-> it]]

\* SummarizationTemplate.generate_questions -> data["questions"]
JudgeQuestions(w, p) ==
    [j \in 1..Len(w[p.text[2]].answers) |-> <<"question", p.text[2], j>>]

\* SummarizationTemplate.generate_answers -> data["answers"]: one answer per
\* question; a question generated from another test case is answered "no".
\* Nothing makes the judge answer every question, or only the questions: in a
\* world that is short on one side, the list for that text lacks its last
\* answer; short on both, both lists lack it; in a world with more, both
\* lists end with one answer to no question.
JudgeAnswers(w, p) ==
    LET side == IF p.text[1] = "input" THEN "original" ELSE "summary"
        short == w[p.text[2]].short
        n == IF short \in {side, "both"} /\ Len(p.items) > 0 THEN Len(p.items) - 1
             ELSE IF short = "more" THEN Len(p.items) + 1
             ELSE Len(p.items)
    IN  [j \in 1..n |->
            IF j > Len(p.items) THEN no
            ELSE LET q == p.items[j]
                     a == w[p.text[2]].answers
                 IN  IF q[2] \in {0, p.text[2]} /\ q[3] \in 1..Len(a)
                     THEN IF side = "original" THEN a[q[3]].original ELSE a[q[3]].summary
                     ELSE no]

\* generate_reason -> data["reason"]: the reason restates what it was given
JudgeReason(w, p) ==
    [negatives |-> p.items, redundancies |-> p.extra, questions |-> p.more,
     score |-> p.score]

Judge(w, p) ==
    CASE p.stage = "opinions" -> JudgeOpinions(w, p)
      [] p.stage = "truths" -> JudgeTruths(w, p)
      [] p.stage = "claims" -> JudgeClaims(w, p)
      [] p.stage = "verdicts" -> JudgeVerdicts(w, p)
      [] p.stage = "questions" -> JudgeQuestions(w, p)
      [] p.stage = "answers" -> JudgeAnswers(w, p)
      [] p.stage = "reason" -> JudgeReason(w, p)

\* the stages, named by the key that the stage takes from the response
Stages == {"opinions", "truths", "claims", "verdicts", "questions", "answers", "reason"}

\* the stages that the pipeline of each metric runs; SummarizationMetric takes
\* its truths and its claims from _generate_claims, under the key "claims"
StagesOf(kind) ==
    IF kind = "Bias" THEN {"opinions", "verdicts", "reason"}
    ELSE IF kind = "Faithfulness" THEN {"truths", "claims", "verdicts", "reason"}
    ELSE {"claims", "questions", "answers", "verdicts", "reason"}

\* what a response can be, besides a JSON object with the stage's key: text
\* that holds no JSON object, or a JSON object without the key.  A response
\* to a verdicts prompt can also be "not_list": a JSON object whose "verdicts"
\* is null, or a list of strings
Shapes == {"not_json", "no_key"}

\* the shape of the judge's response to a prompt of the stage about test case c
Shape(c, stage) ==
    IF ~IsNone(world[c].fault) /\ The(world[c].fault).stage = stage
    THEN The(world[c].fault).shape
    ELSE "ok"

\* trimAndLoadJson(res, self): the exception it raises, if any
trimAndLoadJson(c, stage) ==
    IF Shape(c, stage) = "not_json" THEN Some("ParseError") ELSE None

\* data = trimAndLoadJson(res, self); ... data["<key>"] ...: the exception
\* that these two steps raise, if any; so for
\* [Verdict(**item) for item in data["verdicts"]]
Load(c, stage) ==
    IF ~IsNone(trimAndLoadJson(c, stage)) THEN trimAndLoadJson(c, stage)
    ELSE IF Shape(c, stage) = "no_key" THEN Some("KeyError")
    ELSE IF Shape(c, stage) = "not_list" /\ stage = "verdicts" THEN Some("TypeError")
    ELSE None

----------------------------------------------------------------------------
(* Metric objects.                                                         *)

MetricKinds == {"Bias", "Faithfulness", "Summarization"}

\* BiasMetric.__init__, FaithfulnessMetric.__init__, SummarizationMetric.__init__
Metric__init__(kind, threshold, include_reason, async_mode, strict_mode, native, assessment_questions) ==
    [kind |-> kind,
     threshold |-> IF strict_mode
                   THEN (IF kind = "Bias" THEN Zero ELSE One)
                   ELSE threshold,
     using_native_model |-> native,
     evaluation_model |-> "judge",
     assessment_questions |->
        IF ~IsNone(assessment_questions) /\ Len(The(assessment_questions)) = 0
        THEN None ELSE assessment_questions,
     include_reason |-> include_reason,
     async_mode |-> async_mode,
     strict_mode |-> strict_mode,
     score |-> None, reason |-> None, success |-> None,
     score_breakdown |-> None, evaluation_cost |-> None, error |-> None]

\* verdict.verdict.strip().lower()
Label(v) == lower(strip(v))

RECURSIVE CountTrue(_)
\* the counting loops of _calculate_score: one pass, adding 1 per hit
CountTrue(hits) ==
    IF hits = <<>> THEN 0
    ELSE (IF Head(hits) THEN 1 ELSE 0) + CountTrue(Tail(hits))

\* the verdicts a counting loop or a list comprehension is about
Each(vs) == 1..Len(vs)

\* the comparison without .strip().lower()
BiasHit_exact(v) == v.verdict = yes
BiasHit(v) == Label(v.verdict) = yes
\* the comparison without .strip().lower()
FaithfulnessHit_exact(v) == v.verdict # no
FaithfulnessHit(v) == Label(v.verdict) # no
\* "idk" counted as aligned
AlignmentHit_lenient(v) == Label(v.verdict) # no
AlignmentHit(v) == Label(v.verdict) = yes
\* every pair counted in the denominator
CoverageTotalHit_all(v) == TRUE
CoverageTotalHit(v) == Label(v.original_verdict) = yes
\* the inner `if` of the coverage loop taken out of the outer one
CoverageHit_any(v) == Label(v.summary_verdict) = yes
CoverageHit(v) == Label(v.original_verdict) = yes /\ Label(v.summary_verdict) = yes

\* the fraction alone, returned as it is in strict mode too
Bias_calculate_score_plain(m, verdicts) ==
    LET number_of_verdicts == Len(verdicts)
    IN  IF number_of_verdicts = 0 THEN Zero
        ELSE Frac(CountTrue([i \in Each(verdicts) |-> BiasHit(verdicts[i])]), number_of_verdicts)

\* BiasMetric._calculate_score
Bias_calculate_score(m, verdicts) ==
    LET number_of_verdicts == Len(verdicts)
        score == Frac(CountTrue([i \in Each(verdicts) |-> BiasHit(verdicts[i])]), number_of_verdicts)
    IN  IF number_of_verdicts = 0 THEN Zero
        ELSE IF m.strict_mode /\ Lt(m.threshold, score) THEN One ELSE score

\* the fraction alone, returned as it is in strict mode too
Faithfulness_calculate_score_plain(m, verdicts) ==
    LET number_of_verdicts == Len(verdicts)
    IN  IF number_of_verdicts = 0 THEN One
        ELSE Frac(CountTrue([i \in Each(verdicts) |-> FaithfulnessHit(verdicts[i])]),
                  number_of_verdicts)

\* FaithfulnessMetric._calculate_score
Faithfulness_calculate_score(m, verdicts) ==
    LET number_of_verdicts == Len(verdicts)
        score == Frac(CountTrue([i \in Each(verdicts) |-> FaithfulnessHit(verdicts[i])]), number_of_verdicts)
    IN  IF number_of_verdicts = 0 THEN One
        ELSE IF m.strict_mode /\ Lt(score, m.threshold) THEN Zero ELSE score

\* SummarizationMetric._calculate_score(ScoreType.ALIGNMENT)
Summarization_calculate_alignment(m, alignment_verdicts) ==
    LET total == Len(alignment_verdicts)
        score == Frac(CountTrue([i \in Each(alignment_verdicts) |-> AlignmentHit(alignment_verdicts[i])]), total)
    IN  IF total = 0 THEN Zero
        ELSE IF m.strict_mode /\ Lt(score, m.threshold) THEN Zero ELSE score

\* the coverage fraction alone, returned as it is in strict mode too
Summarization_calculate_coverage_plain(m, coverage_verdicts) ==
    LET total == CountTrue([i \in Each(coverage_verdicts) |-> CoverageTotalHit(coverage_verdicts[i])])
        score == Frac(CountTrue([i \in Each(coverage_verdicts) |-> CoverageHit(coverage_verdicts[i])]), total)
    IN  IF IsNone(m.assessment_questions) THEN One
        ELSE IF total = 0 THEN Zero ELSE score

\* SummarizationMetric._calculate_score(ScoreType.COVERAGE)
Summarization_calculate_coverage(m, coverage_verdicts) ==
    LET total == CountTrue([i \in Each(coverage_verdicts) |-> CoverageTotalHit(coverage_verdicts[i])])
        score == Frac(CountTrue([i \in Each(coverage_verdicts) |-> CoverageHit(coverage_verdicts[i])]), total)
    IN  IF IsNone(m.assessment_questions) THEN One
        ELSE IF total = 0 THEN Zero
        ELSE IF m.strict_mode /\ Lt(score, m.threshold) THEN Zero ELSE score

----------------------------------------------------------------------------
(* The stages: the prompt each one builds and what it makes of the answer. *)

\* [x.reason for x in verdicts if Test(x)]
Reasons(sel) == [i \in 1..Len(sel) |-> sel[i].reason]

IsYes(v) == Label(v.verdict) = yes
IsNo(v) == Label(v.verdict) = no
IsIdk(v) == Label(v.verdict) = idk
IsUncovered(v) == Label(v.original_verdict) = yes /\ Label(v.summary_verdict) = no

\* BiasTemplate.generate_opinions(actual_output=...)
OpinionsPrompt(text) == Prompt("opinions", text, <<>>, <<>>, <<>>, 0)
\* FaithfulnessTemplate.generate_truths(text="\n\n".join(retrieval_context))
TruthsPrompt(text) == Prompt("truths", text, <<>>, <<>>, <<>>, 0)
\* FaithfulnessTemplate.generate_claims(text=...)
ClaimsPrompt(text) == Prompt("claims", text, <<>>, <<>>, <<>>, 0)
\* generate_verdicts(opinions) / generate_verdicts(claims, retrieval_context)
\* / generate_alignment_verdicts(summary_claims, orignal_text)
VerdictsPrompt(items, truths) == Prompt("verdicts", NoText, items, truths, <<>>, 0)
\* SummarizationTemplate.generate_questions(text, n)
QuestionsPrompt(text) == Prompt("questions", text, <<>>, <<>>, <<>>, 0)
\* SummarizationTemplate.generate_answers(questions, text)
AnswersPrompt(questions, text) == Prompt("answers", text, questions, <<>>, <<>>, 0)

\* the prompt of _generate_reason / _a_generate_reason of each metric
ReasonPrompt(kind, verdicts, coverage_verdicts, score) ==
    CASE kind = "Bias" ->
            Prompt("reason", NoText, Reasons(SelectSeq(verdicts, IsYes)), <<>>, <<>>, Format2f(score))
      [] kind = "Faithfulness" ->
            Prompt("reason", NoText, Reasons(SelectSeq(verdicts, IsNo)), <<>>, <<>>, Format2f(score))
      [] kind = "Summarization" ->
            LET unc == SelectSeq(coverage_verdicts, IsUncovered)
            IN  Prompt("reason", NoText, Reasons(SelectSeq(verdicts, IsNo)),
                       [i \in 1..Len(unc) |-> unc[i].question],
                       Reasons(SelectSeq(verdicts, IsIdk)), Format2f(score))

\* the loop that zips the two answer lists with the questions
CoverageVerdicts(original_answers, summary_answers, questions) ==
    [i \in 1..Len(original_answers) |->
        [summary_verdict |-> summary_answers[i],
         original_verdict |-> original_answers[i],
         question |-> questions[i]]]

\* self.evaluation_cost += cost, once per call (each call costs 1)
AddCost(m, ncalls) ==
    IF m.using_native_model
    THEN [m EXCEPT !.evaluation_cost = Some(The(@) + ncalls)]
    ELSE m

\* a start of measure that also puts the threshold back to its default, 0.5
ResetCost_threshold(m) ==
    [m EXCEPT !.evaluation_cost = IF m.using_native_model THEN Some(0) ELSE None,
              !.threshold = Half]

\* self.evaluation_cost = 0 if self.using_native_model else None
ResetCost(m) ==
    [m EXCEPT !.evaluation_cost = IF m.using_native_model THEN Some(0) ELSE None]

\* score <= threshold (Bias), score >= threshold (Faithfulness, Summarization)
Passes(m, score) ==
    IF m.kind = "Bias" THEN Leq(score, m.threshold) ELSE Leq(m.threshold, score)

\* a reason stage without the test of include_reason
Conclude_reason_always(m1, p, exc) ==
    IF IsNone(exc)
    THEN [metric |-> [AddCost(m1, 1) EXCEPT !.reason = Some(Judge(world, p)),
                                            !.success = Some(Passes(m1, The(m1.score)))],
          sent |-> <<p>>, ret |-> m1.score, exc |-> None]
    ELSE [metric |-> AddCost(m1, 1), sent |-> <<p>>, ret |-> None, exc |-> exc]

\* The end of every measure / a_measure, which runs without suspending:
\*   self.score = ...; self.reason = (a)_generate_reason(); self.success = ...
\* The reason stage calls self.model.generate, also in _a_generate_reason.
\* Returns the metric afterwards and the reason prompt sent, if any.
\* When the reason response cannot be loaded the exception leaves the method
\* after self.score is set and before self.reason and self.success are.
\* self.reason = ...; self.success = ...; return self.score, on the metric m1
\* that has its score, with reason prompt p; exc is what loading the response raises
Conclude_reason(m1, p, exc) ==
    IF ~m1.include_reason
    THEN [metric |-> [m1 EXCEPT !.reason = None, !.success = Some(Passes(m1, The(m1.score)))],
          sent |-> <<>>, ret |-> m1.score, exc |-> None]
    ELSE IF IsNone(exc)
    THEN [metric |-> [AddCost(m1, 1) EXCEPT !.reason = Some(Judge(world, p)),
                                            !.success = Some(Passes(m1, The(m1.score)))],
          sent |-> <<p>>, ret |-> m1.score, exc |-> None]
    ELSE [metric |-> AddCost(m1, 1), sent |-> <<p>>, ret |-> None, exc |-> exc]
\* an end of a_measure that keeps a score that the metric already has
Conclude_kept(m, c, score, verdicts, coverage_verdicts) ==
    Conclude_reason(IF IsNone(m.score) THEN [m EXCEPT !.score = Some(score)] ELSE m,
                    ReasonPrompt(m.kind, verdicts, coverage_verdicts, score),
                    Load(c, "reason"))

\* self.score = score, then the reason stage and the rest
Conclude(m, c, score, verdicts, coverage_verdicts) ==
    Conclude_reason([m EXCEPT !.score = Some(score)],
                    ReasonPrompt(m.kind, verdicts, coverage_verdicts, score),
                    Load(c, "reason"))

----------------------------------------------------------------------------
(* Tasks, contexts and the event loop.                                     *)
(*                                                                         *)
(* A task is an asyncio Task: it runs, without interruption, from one      *)
(* suspension point to the next.  It suspends at `await a_generate(...)`   *)
(* (st = "io": it runs again when the judge has answered, which may be at  *)
(* any time) and at `await asyncio.gather(...)` (st = "join": it runs      *)
(* again when the gathered tasks have finished).  The loop runs one        *)
(* runnable task at a time, in any order.  Each task has its own context:  *)
(* the stage outputs of a metric are ContextVars, so `self.opinions = x`   *)
(* writes into the context of the task that executes it.                   *)

StageVars == {"opinions", "truths", "claims", "verdicts", "coverage_verdicts",
              "alignment_verdicts", "coverage_score", "alignment_score"}
EmptyCtx == [v \in StageVars |-> None]

SubNames == {"truths", "claims", "coverage", "alignment", "ans_original", "ans_summary"}
IdleSub == [st |-> "idle", pc |-> "", prompt |-> NoPrompt, res |-> <<>>]

\* a coroutine handed to the loop: a Task with a fresh copy of the (empty) context
NewTask(m, c, coro) ==
    [m |-> m, tc |-> c, coro |-> coro, st |-> "ready", pc |-> "start",
     prompt |-> NoPrompt, ctx |-> EmptyCtx, sub |-> [n \in SubNames |-> IdleSub],
     ret |-> None, exc |-> None]

\* a stage output kept as a plain attribute of the shared metric object: the
\* value lands where every task reads it
Attribute_set(tasks, t, var, val) ==
    [u \in DOMAIN tasks |-> [tasks[u] EXCEPT !.ctx[var] = Some([v |-> val, by |-> t])]]

\* ContextVar.set, reached through the property setters: the value lands in the
\* context of the running task, tagged here with the task that wrote it
ContextVar_set(tasks, t, var, val) ==
    [tasks EXCEPT ![t].ctx[var] = Some([v |-> val, by |-> t])]

\* ContextVar.get, reached through the property getters
ContextVar_get(tasks, t, var) == tasks[t].ctx[var]

\* The state a step works on; a step threads it through its statements.
Cur == [task |-> task, metric |-> metric, calls |-> calls, reads |-> reads]
Apply(S) ==
    /\ task' = S.task
    /\ metric' = S.metric
    /\ calls' = S.calls
    /\ reads' = S.reads

\* the children of the gather that coroutine s of task t awaits
ChildrenOf(t, s) ==
    IF s = "coverage" THEN {"ans_original", "ans_summary"}
    ELSE IF task[t].pc = "extract" THEN {"truths", "claims"}
    ELSE {"coverage", "alignment"}

StateOf(t, s) == IF s = "main" THEN task[t].st ELSE task[t].sub[s].st

\* The tasks one gather creates are queued together, and the loop's queue is
\* first in, first out: they take their first steps in the order of the
\* gather's arguments, before anything queued later runs.
InTurn(t, s) ==
    IF s = "main" /\ task[t].pc = "start"
    THEN \A u \in DOMAIN task : (u < t /\ task[u].st # "idle") => task[u].pc # "start"
    ELSE \A u \in DOMAIN task : task[u].st # "idle" => task[u].pc # "start"

\* a gather that hands over as soon as one of its tasks has finished
Runs_eager(t, s) ==
    /\ InTurn(t, s)
    /\ \/ StateOf(t, s) \in {"ready", "io"}
       \/ /\ StateOf(t, s) = "join"
          /\ \E c \in ChildrenOf(t, s) : task[t].sub[c].st \in {"done", "failed"}

\* the loop can run coroutine s of task t now: it was just created, the judge
\* call it awaits has returned, or the gather it awaits has finished
Runs(t, s) ==
    /\ InTurn(t, s)
    /\ \/ StateOf(t, s) \in {"ready", "io"}
       \/ /\ StateOf(t, s) = "join"
          /\ \/ \A c \in ChildrenOf(t, s) : task[t].sub[c].st = "done"
             \/ \E c \in ChildrenOf(t, s) : task[t].sub[c].st = "failed"
\* some coroutine of some task can run
Runnable == \E t \in DOMAIN task, s \in SubNames \cup {"main"} : Runs(t, s)

MetricOf(t) == metric[task[t].m]

Set(S, t, var, val) == [S EXCEPT !.task = ContextVar_set(S.task, t, var, val)]
Val(S, t, var) == The(ContextVar_get(S.task, t, var)).v
Read(S, t, var) ==
    LET got == ContextVar_get(S.task, t, var)
    IN  [S EXCEPT !.reads = @ \cup {<<t, var, IF IsNone(got) THEN 0 ELSE The(got).by>>}]
Sent(S, t, p) == [S EXCEPT !.calls[t] = @ (+) SetToBag({p})]
Paid(S, t) == [S EXCEPT !.metric[S.task[t].m] = AddCost(@, 1)]

\* res = await self.model.a_generate(prompt), in the main coroutine of t
Await(S, t, pc, p) ==
    [Sent(S, t, p) EXCEPT !.task[t].st = "io", !.task[t].pc = pc, !.task[t].prompt = p]

\* await asyncio.gather(a, b): both become tasks
Gather(S, t, pc, a, b) ==
    [S EXCEPT !.task[t].st = "join", !.task[t].pc = pc,
              !.task[t].sub[a].st = "ready", !.task[t].sub[b].st = "ready"]

\* measure_metric_task, `except TypeError: await metric.a_measure(test_case)`:
\* a_measure is called a second time, in the same task, and runs to its
\* first await (the test case passed the validation of the first call)
A_measure_again(S, t) ==
    LET S1 == [S EXCEPT !.task[t].coro = "a_measure_again", !.task[t].exc = None,
                        !.task[t].sub = [n \in SubNames |-> IdleSub],
                        !.metric[S.task[t].m] = ResetCost(@)]
    IN  IF S.metric[S.task[t].m].kind = "Bias"
        THEN Await(S1, t, "opinions", OpinionsPrompt(TestCase(S.task[t].tc).actual_output))
        ELSE Gather(S1, t, "extract", "truths", "claims")

\* the exception leaves a_measure: it ends the task, unless the task is a
\* measure_metric_task in its `try` and the exception is a TypeError
Raise(S, t, exc) ==
    IF S.task[t].coro = "measure_metric_task" /\ exc = "TypeError"
    THEN A_measure_again(S, t)
    ELSE [S EXCEPT !.task[t].st = "failed", !.task[t].pc = "failed",
                   !.task[t].exc = Some(exc)]

\* self.score = ...; self.reason = await self._a_generate_reason();
\* self.success = ...; return self.score
\* a_measure ends as its last statements, with outcome c, end: it returns the
\* score, or the exception of the reason stage leaves it
Concluded(S, t, c) ==
    IF IsNone(c.exc)
    THEN [S EXCEPT !.metric[S.task[t].m] = c.metric,
                   !.calls[t] = @ (+) SetToBag({c.sent[i] : i \in 1..Len(c.sent)}),
                   !.task[t].st = "done", !.task[t].pc = "done",
                   !.task[t].ret = c.ret]
    ELSE Raise([S EXCEPT !.metric[S.task[t].m] = c.metric,
                         !.calls[t] = @ (+) SetToBag({c.sent[i] : i \in 1..Len(c.sent)})],
               t, The(c.exc))
Return(S, t, score, verdicts, coverage_verdicts) ==
    Concluded(S, t, Conclude(S.metric[S.task[t].m], S.task[t].tc, score, verdicts,
                             coverage_verdicts))

\* self.verdicts = verdicts; self.score = self._calculate_score(); ... (Bias, Faithfulness)
ScoreVerdicts(S, t, verdicts) ==
    LET S1 == Read(Set(S, t, "verdicts", verdicts), t, "verdicts")
        m == S1.metric[S1.task[t].m]
        vs == Val(S1, t, "verdicts")
        score == IF m.kind = "Bias" THEN Bias_calculate_score(m, vs)
                 ELSE Faithfulness_calculate_score(m, vs)
    IN  Return(S1, t, score, vs, <<>>)

\* data = trimAndLoadJson(res, self); verdicts = [...data["verdicts"]]; return
\* verdicts, and the rest of a_measure (Bias, Faithfulness)
Verdicts_resume(S, t, p) ==
    IF ~IsNone(Load(S.task[t].tc, "verdicts"))
    THEN Raise(S, t, The(Load(S.task[t].tc, "verdicts")))
    ELSE ScoreVerdicts(S, t, Judge(world, p))

----------------------------------------------------------------------------
(* BiasMetric.a_measure.                                                   *)

Bias_a_measure(t) ==
    /\ Runs(t, "main") /\ task[t].pc = "start" /\ MetricOf(t).kind = "Bias"
    /\ task[t].coro # "measure_metric_task"
    /\ LET S1 == [Cur EXCEPT !.metric[task[t].m] = ResetCost(@)]
       IN  IF ~check_llm_test_case_params(task[t].tc, "Bias")
           THEN Apply(Raise(Cur, t, "ValidationError"))
           ELSE Apply(Await(S1, t, "opinions", OpinionsPrompt(TestCase(task[t].tc).actual_output)))
    /\ UNCHANGED <<world, caller>>

\* _a_generate_opinions resumes; then _a_generate_verdicts up to its await
Bias_a_generate_opinions(t) ==
    /\ Runs(t, "main") /\ task[t].pc = "opinions"
    /\ LET exc == Load(task[t].tc, "opinions")
           S1 == Set(Paid(Cur, t), t, "opinions", Judge(world, task[t].prompt))
           S2 == Read(S1, t, "opinions")
           opinions == Val(S2, t, "opinions")
       IN  IF ~IsNone(exc)
           THEN Apply(Raise(Paid(Cur, t), t, The(exc)))
           ELSE IF Len(opinions) = 0
                THEN Apply(ScoreVerdicts(S2, t, <<>>))
                ELSE Apply(Await(S2, t, "verdicts", VerdictsPrompt(opinions, <<>>)))
    /\ UNCHANGED <<world, caller>>

\* _a_generate_verdicts resumes; the rest of a_measure runs to its return
Bias_a_generate_verdicts(t) ==
    /\ Runs(t, "main") /\ task[t].pc = "verdicts" /\ MetricOf(t).kind = "Bias"
    /\ Apply(Verdicts_resume(Paid(Cur, t), t, task[t].prompt))
    /\ UNCHANGED <<world, caller>>

----------------------------------------------------------------------------
(* The tasks that asyncio.gather makes of the stage coroutines.            *)

\* a subtask returns res
SubReturn(S, t, s, res) ==
    [S EXCEPT !.task[t].sub[s].st = "done", !.task[t].sub[s].res = res]

\* a subtask raises exc: the gather that awaits it raises the first exception
\* that one of its tasks raises, and leaves the other tasks running
SubRaise(S, t, s, exc) ==
    LET S1 == [S EXCEPT !.task[t].sub[s].st = "failed", !.task[t].sub[s].res = <<exc>>]
    IN  IF s \in {"ans_original", "ans_summary"}
        THEN IF S.task[t].sub["coverage"].res = <<>>
             THEN [S1 EXCEPT !.task[t].sub["coverage"].res = <<exc>>]
             ELSE S1
        ELSE IF IsNone(S.task[t].exc)
             THEN [S1 EXCEPT !.task[t].exc = Some(exc)]
             ELSE S1

\* a task of the gather that coroutine s of task t awaits has raised
ChildFailed(t, s) == \E c \in ChildrenOf(t, s) : task[t].sub[c].st = "failed"

\* res = await self.model.a_generate(prompt), in subtask s of t
SubAwait(S, t, s, pc, p) ==
    [Sent(S, t, p) EXCEPT !.task[t].sub[s].st = "io", !.task[t].sub[s].pc = pc,
                          !.task[t].sub[s].prompt = p]

\* _a_generate_truths / _a_generate_claims, from their start to the await
Extract_start(t, s) ==
    /\ Runs(t, s) /\ s \in {"truths", "claims"} /\ task[t].sub[s].pc = ""
    /\ LET tc == TestCase(task[t].tc)
           p == IF s = "claims" THEN ClaimsPrompt(tc.actual_output)
                ELSE IF MetricOf(t).kind = "Faithfulness"
                     THEN TruthsPrompt(tc.retrieval_context)
                     ELSE ClaimsPrompt(tc.input)
       IN  Apply(SubAwait(Cur, t, s, "call", p))
    /\ UNCHANGED <<world, caller>>

\* ... and from the await to the return; the same for _a_generate_answers and
\* _a_generate_alignment_verdicts
Stage_resume(t, s) ==
    /\ Runs(t, s) /\ s \in SubNames \ {"coverage"} /\ task[t].sub[s].pc = "call"
    /\ LET exc == Load(task[t].tc, task[t].sub[s].prompt.stage)
       IN  IF ~IsNone(exc)
           THEN Apply(SubRaise(Paid(Cur, t), t, s, The(exc)))
           ELSE Apply(SubReturn(Paid(Cur, t), t, s, Judge(world, task[t].sub[s].prompt)))
    /\ UNCHANGED <<world, caller>>

----------------------------------------------------------------------------
(* FaithfulnessMetric.a_measure.                                           *)

Faithfulness_a_measure(t) ==
    /\ Runs(t, "main") /\ task[t].pc = "start" /\ MetricOf(t).kind = "Faithfulness"
    /\ task[t].coro # "measure_metric_task"
    /\ LET S1 == [Cur EXCEPT !.metric[task[t].m] = ResetCost(@)]
       IN  IF ~check_llm_test_case_params(task[t].tc, "Faithfulness")
           THEN Apply(Raise(Cur, t, "ValidationError"))
           ELSE Apply(Gather(S1, t, "extract", "truths", "claims"))
    /\ UNCHANGED <<world, caller>>

\* a verdict stage that asks the judge about an empty list of claims too
Faithfulness_extracted_always(t) ==
    /\ Runs(t, "main") /\ task[t].pc = "extract" /\ MetricOf(t).kind = "Faithfulness"
    /\ LET S1 == Set(Set(Cur, t, "truths", task[t].sub["truths"].res),
                     t, "claims", task[t].sub["claims"].res)
           S2 == Read(Read(S1, t, "claims"), t, "truths")
           p == VerdictsPrompt(Val(S2, t, "claims"), Val(S2, t, "truths"))
       IN  IF ChildFailed(t, "main")
           THEN Apply(Raise(Cur, t, The(task[t].exc)))
           ELSE IF MetricOf(t).using_native_model
                THEN Apply(Await(S2, t, "verdicts", p))
                ELSE Apply(Verdicts_resume(Sent(S2, t, p), t, p))
    /\ UNCHANGED <<world, caller>>

\* self.truths, self.claims = await gather(...); then _a_generate_verdicts,
\* which awaits the judge only with a native model (it calls generate otherwise)
Faithfulness_extracted(t) ==
    /\ Runs(t, "main") /\ task[t].pc = "extract" /\ MetricOf(t).kind = "Faithfulness"
    /\ LET S1 == Set(Set(Cur, t, "truths", task[t].sub["truths"].res),
                     t, "claims", task[t].sub["claims"].res)
           S2 == Read(Read(S1, t, "claims"), t, "truths")
           p == VerdictsPrompt(Val(S2, t, "claims"), Val(S2, t, "truths"))
       IN  IF ChildFailed(t, "main")
           THEN Apply(Raise(Cur, t, The(task[t].exc)))
           ELSE IF Len(Val(S2, t, "claims")) = 0
           THEN Apply(ScoreVerdicts(S2, t, <<>>))
           ELSE IF MetricOf(t).using_native_model
                THEN Apply(Await(S2, t, "verdicts", p))
                ELSE Apply(Verdicts_resume(Sent(S2, t, p), t, p))
    /\ UNCHANGED <<world, caller>>

Faithfulness_a_generate_verdicts(t) ==
    /\ Runs(t, "main") /\ task[t].pc = "verdicts" /\ MetricOf(t).kind = "Faithfulness"
    /\ Apply(Verdicts_resume(Paid(Cur, t), t, task[t].prompt))
    /\ UNCHANGED <<world, caller>>

----------------------------------------------------------------------------
(* SummarizationMetric.a_measure.                                          *)

Summarization_a_measure(t) ==
    /\ Runs(t, "main") /\ task[t].pc = "start" /\ MetricOf(t).kind = "Summarization"
    /\ task[t].coro # "measure_metric_task"
    /\ LET S1 == [Cur EXCEPT !.metric[task[t].m] = ResetCost(@)]
       IN  IF ~check_llm_test_case_params(task[t].tc, "Summarization")
           THEN Apply(Raise(Cur, t, "ValidationError"))
           ELSE Apply(Gather(S1, t, "extract", "truths", "claims"))
    /\ UNCHANGED <<world, caller>>

\* self.truths, self.claims = await gather(...); then the second gather
Summarization_extracted(t) ==
    /\ Runs(t, "main") /\ task[t].pc = "extract" /\ MetricOf(t).kind = "Summarization"
    /\ LET S1 == Set(Set(Cur, t, "truths", task[t].sub["truths"].res),
                     t, "claims", task[t].sub["claims"].res)
       IN  IF ChildFailed(t, "main")
           THEN Apply(Raise(Cur, t, The(task[t].exc)))
           ELSE Apply(Gather(S1, t, "verdicts", "coverage", "alignment"))
    /\ UNCHANGED <<world, caller>>

\* _a_generate_alignment_verdicts, from its start to the await (or the early return)
Summarization_a_generate_alignment_verdicts(t) ==
    /\ Runs(t, "alignment") /\ task[t].sub["alignment"].pc = ""
    /\ LET S1 == Read(Read(Cur, t, "claims"), t, "truths")
           claims == Val(S1, t, "claims")
       IN  IF Len(claims) = 0
           THEN Apply(SubReturn(S1, t, "alignment", <<>>))
           ELSE Apply(SubAwait(S1, t, "alignment", "call",
                               VerdictsPrompt(claims, Val(S1, t, "truths"))))
    /\ UNCHANGED <<world, caller>>

\* tasks = [answers(input), answers(actual_output)]; await asyncio.gather(*tasks)
GatherAnswers(S, t) ==
    [S EXCEPT !.task[t].sub["coverage"].st = "join",
              !.task[t].sub["coverage"].pc = "answers",
              !.task[t].sub["ans_original"].st = "ready",
              !.task[t].sub["ans_summary"].st = "ready"]

\* _a_generate_coverage_verdicts, from its start to its first await
Summarization_a_generate_coverage_verdicts(t) ==
    /\ Runs(t, "coverage") /\ task[t].sub["coverage"].pc = ""
    /\ IF IsNone(MetricOf(t).assessment_questions)
       THEN Apply(SubAwait(Cur, t, "coverage", "questions",
                           QuestionsPrompt(TestCase(task[t].tc).input)))
       ELSE Apply(GatherAnswers(Cur, t))
    /\ UNCHANGED <<world, caller>>

\* self.assessment_questions = await self._a_generate_assessment_questions(...)
Summarization_a_generate_assessment_questions(t) ==
    /\ Runs(t, "coverage") /\ task[t].sub["coverage"].pc = "questions"
    /\ LET S1 == Paid(Cur, t)
           S2 == [S1 EXCEPT !.metric[task[t].m].assessment_questions =
                               Some(Judge(world, task[t].sub["coverage"].prompt))]
           exc == Load(task[t].tc, "questions")
       IN  IF ~IsNone(exc)
           THEN Apply(SubRaise(S1, t, "coverage", The(exc)))
           ELSE Apply(GatherAnswers(S2, t))
    /\ UNCHANGED <<world, caller>>

\* _a_generate_answers, from its start to the await: the prompt is built from
\* self.assessment_questions as it is when the task starts
Summarization_a_generate_answers(t, s) ==
    /\ Runs(t, s) /\ s \in {"ans_original", "ans_summary"} /\ task[t].sub[s].pc = ""
    /\ LET tc == TestCase(task[t].tc)
           text == IF s = "ans_original" THEN tc.input ELSE tc.actual_output
       IN  Apply(SubAwait(Cur, t, s, "call",
                          AnswersPrompt(The(MetricOf(t).assessment_questions), text)))
    /\ UNCHANGED <<world, caller>>

\* the rest of _a_generate_coverage_verdicts without its test of the lengths:
\* the answers are paired as far as both lists go
CoverageResult_paired(S, t) ==
    LET original_answers == S.task[t].sub["ans_original"].res
        summary_answers == S.task[t].sub["ans_summary"].res
        questions == The(S.metric[S.task[t].m].assessment_questions)
        n == IF Len(original_answers) < Len(summary_answers)
             THEN Len(original_answers) ELSE Len(summary_answers)
    IN  IF Len(questions) < n
        THEN SubRaise(S, t, "coverage", "IndexError")
        ELSE SubReturn(S, t, "coverage",
                       CoverageVerdicts(SubSeq(original_answers, 1, n),
                                        SubSeq(summary_answers, 1, n), questions))

\* the rest of _a_generate_coverage_verdicts, after the answers are gathered
CoverageResult(S, t) ==
    LET original_answers == S.task[t].sub["ans_original"].res
        summary_answers == S.task[t].sub["ans_summary"].res
        questions == The(S.metric[S.task[t].m].assessment_questions)
    IN  IF Len(original_answers) # Len(summary_answers)
        THEN SubRaise(S, t, "coverage", "ValueError")
        ELSE IF Len(questions) < Len(original_answers)
             THEN SubRaise(S, t, "coverage", "IndexError")
             ELSE SubReturn(S, t, "coverage",
                            CoverageVerdicts(original_answers, summary_answers, questions))

Summarization_coverage_answered(t) ==
    /\ Runs(t, "coverage") /\ task[t].sub["coverage"].pc = "answers"
    /\ IF ChildFailed(t, "coverage")
       THEN Apply(SubRaise(Cur, t, "coverage", task[t].sub["coverage"].res[1]))
       ELSE Apply(CoverageResult(Cur, t))
    /\ UNCHANGED <<world, caller>>

\* the second gather returns (or raises); the rest of a_measure to its return
Summarization_verdicts(t) ==
    /\ Runs(t, "main") /\ task[t].pc = "verdicts" /\ MetricOf(t).kind = "Summarization"
    /\ IF ChildFailed(t, "main")
       THEN Apply(Raise(Cur, t, The(task[t].exc)))
       ELSE LET S1 == Set(Set(Cur, t, "coverage_verdicts", task[t].sub["coverage"].res),
                          t, "alignment_verdicts", task[t].sub["alignment"].res)
                m == MetricOf(t)
                S2 == Read(Read(S1, t, "alignment_verdicts"), t, "coverage_verdicts")
                av == Val(S2, t, "alignment_verdicts")
                cv == Val(S2, t, "coverage_verdicts")
                S3 == Set(S2, t, "alignment_score", Summarization_calculate_alignment(m, av))
                S4 == Set(S3, t, "coverage_score", Summarization_calculate_coverage(m, cv))
                S5 == Read(Read(S4, t, "alignment_score"), t, "coverage_score")
                score == PyMin(Val(S5, t, "alignment_score"), Val(S5, t, "coverage_score"))
            IN  Apply(Return(S5, t, score, av, cv))
    /\ UNCHANGED <<world, caller>>

----------------------------------------------------------------------------
(* The blocking pipeline: the `else` branch of measure(), with             *)
(* async_mode = False.  It runs from the first stage to the return without *)
(* suspending, so it is one function of the metric and the test case.      *)
(* Result: the metric afterwards, the prompts sent in order, the stage     *)
(* outputs, the value returned and the exception raised, if any.           *)

Outcome(m, sent, ctx, ret, exc) ==
    [metric |-> m, sent |-> sent, ctx |-> ctx, ret |-> ret, exc |-> exc]

\* self.score = ...; self.reason = self._generate_reason(); self.success = ...;
\* return self.score
\* the outcome of the blocking pipeline whose last statements had outcome c
Concluded_sync(sent, ctx, c) == Outcome(c.metric, sent \o c.sent, ctx, c.ret, c.exc)
Finish_sync(m, tc, sent, ctx, score, verdicts, coverage_verdicts) ==
    Concluded_sync(sent, ctx, Conclude(m, tc, score, verdicts, coverage_verdicts))

\* the first of the judge calls, in the order they are made, whose response
\* cannot be loaded; 0 when there is none
FirstFault(c, sent) ==
    LET bad == {i \in 1..Len(sent) : ~IsNone(Load(c, sent[i].stage))}
    IN  IF bad = {} THEN 0 ELSE CHOOSE i \in bad : \A j \in bad : i <= j

\* the pipeline ends at its k-th judge call: the call is paid for, then
\* trimAndLoadJson or the subscript raises
Abort_sync(m, c, sent, k, ctx) ==
    Outcome(AddCost(m, k), SubSeq(sent, 1, k), ctx, None, Load(c, sent[k].stage))

\* BiasMetric.measure, async_mode = False
Bias_measure_sync(m, c) ==
    LET p1 == OpinionsPrompt(TestCase(c).actual_output)
        opinions == Judge(world, p1)
        p2 == VerdictsPrompt(opinions, <<>>)
        called == Len(opinions) # 0
        verdicts == IF called THEN Judge(world, p2) ELSE <<>>
        sent == IF called THEN <<p1, p2>> ELSE <<p1>>
        m1 == AddCost(ResetCost(m), Len(sent))
        ctx == [EmptyCtx EXCEPT !.opinions = Some(opinions), !.verdicts = Some(verdicts)]
        k == FirstFault(c, sent)
    IN  IF k > 0
        THEN Abort_sync(ResetCost(m), c, sent, k,
                        IF k = 1 THEN EmptyCtx
                        ELSE [EmptyCtx EXCEPT !.opinions = Some(opinions)])
        ELSE Finish_sync(m1, c, sent, ctx, Bias_calculate_score(m1, verdicts), verdicts, <<>>)

\* FaithfulnessMetric.measure, async_mode = False, given what its three
\* stages get from the judge
Faithfulness_pipeline_sync(m, c, truths, claims, verdicts) ==
    LET p1 == TruthsPrompt(TestCase(c).retrieval_context)
        p2 == ClaimsPrompt(TestCase(c).actual_output)
        p3 == VerdictsPrompt(claims, truths)
        called == Len(claims) # 0
        sent == IF called THEN <<p1, p2, p3>> ELSE <<p1, p2>>
        m1 == AddCost(ResetCost(m), Len(sent))
        ctx == [EmptyCtx EXCEPT !.truths = Some(truths), !.claims = Some(claims),
                                !.verdicts = Some(verdicts)]
        k == FirstFault(c, sent)
    IN  IF k > 0
        THEN Abort_sync(ResetCost(m), c, sent, k,
                        IF k = 1 THEN EmptyCtx
                        ELSE IF k = 2 THEN [EmptyCtx EXCEPT !.truths = Some(truths)]
                        ELSE [EmptyCtx EXCEPT !.truths = Some(truths), !.claims = Some(claims)])
        ELSE Finish_sync(m1, c, sent, ctx, Faithfulness_calculate_score(m1, verdicts),
                         verdicts, <<>>)

\* FaithfulnessMetric.measure, async_mode = False
Faithfulness_measure_sync(m, c) ==
    LET truths == Judge(world, TruthsPrompt(TestCase(c).retrieval_context))
        claims == Judge(world, ClaimsPrompt(TestCase(c).actual_output))
    IN  Faithfulness_pipeline_sync(m, c, truths, claims,
                                   IF Len(claims) # 0
                                   THEN Judge(world, VerdictsPrompt(claims, truths))
                                   ELSE <<>>)

\* SummarizationMetric.measure, async_mode = False, given what its stages get
\* from the judge
Summarization_pipeline_sync(m, c, truths, claims, questions, original_answers, summary_answers, alignment_verdicts) ==
    LET tc == TestCase(c)
        p1 == ClaimsPrompt(tc.input)
        p2 == ClaimsPrompt(tc.actual_output)
        \* _generate_coverage_verdicts
        generated == IsNone(m.assessment_questions)
        pq == QuestionsPrompt(tc.input)
        pa1 == AnswersPrompt(questions, tc.input)
        pa2 == AnswersPrompt(questions, tc.actual_output)
        sentc == <<p1, p2>> \o (IF generated THEN <<pq>> ELSE <<>>) \o <<pa1, pa2>>
        mc == [AddCost(ResetCost(m), Len(sentc)) EXCEPT
                  !.assessment_questions = Some(questions)]
        ctxc == [EmptyCtx EXCEPT !.truths = Some(truths), !.claims = Some(claims)]
        \* _generate_alignment_verdicts
        pv == VerdictsPrompt(claims, truths)
        called == Len(claims) # 0
        coverage_verdicts == CoverageVerdicts(original_answers, summary_answers, questions)
        m1 == AddCost(mc, IF called THEN 1 ELSE 0)
        alignment_score == Summarization_calculate_alignment(m1, alignment_verdicts)
        coverage_score == Summarization_calculate_coverage(m1, coverage_verdicts)
        m2 == [m1 EXCEPT !.score_breakdown =
                            Some([Alignment |-> alignment_score, Coverage |-> coverage_score])]
        ctx == [ctxc EXCEPT !.coverage_verdicts = Some(coverage_verdicts),
                            !.alignment_verdicts = Some(alignment_verdicts),
                            !.alignment_score = Some(alignment_score),
                            !.coverage_score = Some(coverage_score)]
        k == FirstFault(c, sentc)
        asked == IF generated THEN 3 ELSE 2
    IN  IF k > 0
        THEN Abort_sync(IF generated /\ k > asked
                        THEN [ResetCost(m) EXCEPT !.assessment_questions = Some(questions)]
                        ELSE ResetCost(m),
                        c, sentc, k,
                        IF k = 1 THEN EmptyCtx
                        ELSE IF k = 2 THEN [EmptyCtx EXCEPT !.truths = Some(truths)]
                        ELSE ctxc)
        ELSE IF Len(original_answers) # Len(summary_answers)
        THEN Outcome(mc, sentc, ctxc, None, Some("ValueError"))
        ELSE IF Len(questions) < Len(original_answers)
        THEN Outcome(mc, sentc, ctxc, None, Some("IndexError"))
        ELSE IF called /\ ~IsNone(Load(c, "verdicts"))
        THEN Outcome(m1, sentc \o <<pv>>,
                     [ctxc EXCEPT !.coverage_verdicts = Some(coverage_verdicts)],
                     None, Load(c, "verdicts"))
        ELSE Finish_sync(m2, c, sentc \o (IF called THEN <<pv>> ELSE <<>>), ctx,
                         PyMin(alignment_score, coverage_score),
                         alignment_verdicts, coverage_verdicts)

\* SummarizationMetric.measure, async_mode = False
Summarization_measure_sync(m, c) ==
    LET tc == TestCase(c)
        truths == Judge(world, ClaimsPrompt(tc.input))
        claims == Judge(world, ClaimsPrompt(tc.actual_output))
        questions == IF IsNone(m.assessment_questions)
                     THEN Judge(world, QuestionsPrompt(tc.input))
                     ELSE The(m.assessment_questions)
    IN  Summarization_pipeline_sync(m, c, truths, claims, questions,
            Judge(world, AnswersPrompt(questions, tc.input)),
            Judge(world, AnswersPrompt(questions, tc.actual_output)),
            IF Len(claims) # 0 THEN Judge(world, VerdictsPrompt(claims, truths)) ELSE <<>>)

Measure_sync(m, c) ==
    IF ~check_llm_test_case_params(c, m.kind)
    THEN Outcome(m, <<>>, EmptyCtx, None, Some("ValidationError"))
    ELSE CASE m.kind = "Bias" -> Bias_measure_sync(m, c)
           [] m.kind = "Faithfulness" -> Faithfulness_measure_sync(m, c)
           [] m.kind = "Summarization" -> Summarization_measure_sync(m, c)

----------------------------------------------------------------------------
(* Concurrent evaluation: asyncio.gather(metric.a_measure(tc_1), ...,      *)
(* metric.a_measure(tc_N)) on one metric object.                           *)

Thresholds == {Zero, Half, One}

\* the verdict labels and the answers of test case c, in variant v of the world
PatternLabel(i) == CASE i % 3 = 1 -> yes [] i % 3 = 2 -> no [] OTHER -> idk
ConcEntry(c, v) ==
    [labels |-> [i \in 1..((c + v) % (MaxVerdicts + 1)) |-> PatternLabel(i + c)],
     answers |-> [j \in 1..(1 + ((c + v) % MaxQuestions)) |->
                    [original |-> yes,
                     summary |-> IF (j + c + v) % 2 = 0 THEN yes ELSE no]],
     given |-> Params, fault |-> None, short |-> "none"]

SuppliedQuestions(n) == [j \in 1..n |-> <<"question", 0, j>>]

TaskIds == 1..NumTasks

InitConc ==
    /\ \E kind \in MetricKinds, strict \in BOOLEAN, native \in BOOLEAN,
          reason \in BOOLEAN, nq \in 0..1 :
          metric = [m \in {1} |->
                      Metric__init__(kind, Half, reason, TRUE, strict, native,
                                     IF nq = 0 \/ kind # "Summarization" THEN None
                                     ELSE Some(SuppliedQuestions(nq)))]
    /\ \E v \in 0..MaxVerdicts : world = [c \in TaskIds |-> ConcEntry(c, v)]
    /\ task = [t \in TaskIds |-> NewTask(1, t, "a_measure")]
    /\ calls = [t \in TaskIds |-> EmptyBag]
    /\ caller = [pc |-> "gather", made |-> metric]
    /\ reads = {}

NextConc ==
    \/ \E t \in DOMAIN task : Bias_a_measure(t)
    \/ \E t \in DOMAIN task : Bias_a_generate_opinions(t)
    \/ \E t \in DOMAIN task : Bias_a_generate_verdicts(t)
    \/ \E t \in DOMAIN task, s \in SubNames : Extract_start(t, s)
    \/ \E t \in DOMAIN task, s \in SubNames : Stage_resume(t, s)
    \/ \E t \in DOMAIN task : Faithfulness_a_measure(t)
    \/ \E t \in DOMAIN task : Faithfulness_extracted(t)
    \/ \E t \in DOMAIN task : Faithfulness_a_generate_verdicts(t)
    \/ \E t \in DOMAIN task : Summarization_a_measure(t)
    \/ \E t \in DOMAIN task : Summarization_extracted(t)
    \/ \E t \in DOMAIN task : Summarization_a_generate_alignment_verdicts(t)
    \/ \E t \in DOMAIN task : Summarization_a_generate_coverage_verdicts(t)
    \/ \E t \in DOMAIN task : Summarization_a_generate_assessment_questions(t)
    \/ \E t \in DOMAIN task, s \in SubNames : Summarization_a_generate_answers(t, s)
    \/ \E t \in DOMAIN task : Summarization_coverage_answered(t)
    \/ \E t \in DOMAIN task : Summarization_verdicts(t)

SpecConc == InitConc /\ [][NextConc]_vars

----------------------------------------------------------------------------
(* One test case, measured twice: `await metric_1.a_measure(tc)` on a      *)
(* fresh loop, then `metric_2.measure(tc)`, the two metrics constructed    *)
(* alike.  The judge's verdicts range over every list of labels.           *)

\* measure() with async_mode = False: the blocking pipeline, then `return self.score`
\* the blocking pipeline is over with outcome out: control is back at the caller
Measure_returned(out) ==
    /\ metric' = [metric EXCEPT ![2] = out.metric]
    /\ calls' = [calls EXCEPT ![2] = [p \in {out.sent[i] : i \in 1..Len(out.sent)} |-> 1]]
    /\ caller' = [caller EXCEPT
                     !.pc = IF IsNone(out.exc) THEN "returned" ELSE "raised",
                     !.ret = out.ret, !.exc = out.exc, !.ctx = out.ctx]

Measure_blocking ==
    /\ caller.pc = "measure" /\ ~metric[2].async_mode
    /\ Measure_returned(Measure_sync(metric[2], 1))
    /\ UNCHANGED <<task, world, reads>>

\* measure() with async_mode = True, up to loop.run_until_complete(...): the
\* coroutine _measure_async becomes a task of the loop, with its own context
Measure_run_until_complete ==
    /\ caller.pc = "measure" /\ metric[2].async_mode
    /\ IF ~check_llm_test_case_params(1, metric[2].kind)
       THEN /\ caller' = [caller EXCEPT !.pc = "raised", !.exc = Some("ValidationError")]
            /\ UNCHANGED <<metric, task>>
       ELSE /\ metric' = [metric EXCEPT ![2] = ResetCost(@)]
            /\ task' = [task EXCEPT ![2] = NewTask(2, 1, "_measure_async")]
            /\ caller' = [caller EXCEPT !.pc = "run_until_complete"]
    /\ UNCHANGED <<calls, world, reads>>

\* the value of a stage output in a task's context, without the writer's tag
Untagged(o) == IF IsNone(o) THEN None ELSE Some(The(o).v)

\* ... and from there on: _measure_async returns (self.<stage outputs>, self.score,
\* self.reason, self.success), measure() assigns them and falls off its `if` branch
Measure_completed ==
    /\ caller.pc = "run_until_complete" /\ task[2].st \in {"done", "failed"}
    /\ IF task[2].st = "failed"
       THEN caller' = [caller EXCEPT !.pc = "raised", !.exc = task[2].exc]
       ELSE caller' = [caller EXCEPT !.pc = "returned", !.ret = None,
                          !.ctx = [v \in StageVars |-> Untagged(task[2].ctx[v])]]
    /\ UNCHANGED <<metric, task, calls, world, reads>>

\* `await metric_1.a_measure(tc)` returns (or raises) to the caller
A_measure_completed ==
    /\ caller.pc = "a_measure" /\ task[1].st \in {"done", "failed"}
    /\ caller' = [caller EXCEPT !.pc = "measure", !.got = task[1].ret]
    /\ UNCHANGED <<metric, task, calls, world, reads>>

RECURSIVE SeqsUpTo(_, _)
\* every list of at most n elements of S
SeqsUpTo(S, n) ==
    IF n = 0 THEN {<<>>}
    ELSE LET shorter == SeqsUpTo(S, n - 1)
         IN  shorter \cup {Append(q, x) : q \in shorter, x \in S}

\* the verdict lists of the examples of the documentation
ExampleLabels == { <<yes, no, no, no>>, <<no, no>> }
ExampleAnswers ==
    { << [original |-> yes, summary |-> yes], [original |-> yes, summary |-> no],
         [original |-> no, summary |-> no] >> }

LabelLists == SeqsUpTo(RawLabels, MaxVerdicts) \cup ExampleLabels
AlignmentLists == SeqsUpTo({yes, no, idk}, MaxVerdicts)
\* answers that are neither yes nor no: the summary cannot tell
UnsureAnswers ==
    { << [original |-> yes, summary |-> idk], [original |-> yes, summary |-> no] >>,
      << [original |-> yes, summary |-> idk] >> }
AnswerLists ==
    SeqsUpTo([original : {yes, no}, summary : {yes, no}], MaxQuestions)
        \cup ExampleAnswers \cup UnsureAnswers

\* what the judge says about the one test case: for Bias and Faithfulness any
\* list of labels; for Summarization any list of alignment labels with one
\* plain answer, or any list of answers with one plain alignment verdict
EvalWorlds(kind) ==
    (IF kind # "Summarization"
     THEN [labels : LabelLists, answers : {<<>>}, given : {Params}, fault : {None}, short : {"none"}]
     ELSE [labels : AlignmentLists, answers : {<<[original |-> yes, summary |-> yes]>>},
           given : {Params}, fault : {None}, short : {"none"}]
          \cup [labels : {<<yes>>}, answers : AnswerLists, given : {Params}, fault : {None}, short : {"none"}])
    \cup [labels : {<<yes>>}, answers : {<<[original |-> yes, summary |-> yes]>>},
          given : (SUBSET Params) \ {Params}, fault : {None}, short : {"none"}]

\* one of the judge's responses holds no JSON object with the stage's key
FaultWorlds(kind) ==
    [labels : {<<yes>>}, answers : {<<[original |-> yes, summary |-> yes]>>},
     given : {Params}, fault : {Some(f) : f \in [stage : StagesOf(kind), shape : Shapes]},
     short : {"none"}]

\* the judge finds nothing in the actual output, and would answer a verdicts
\* prompt with an object that lacks the key
SilentWorlds(kind) ==
    [labels : {<<>>}, answers : {<<[original |-> yes, summary |-> yes]>>},
     given : {Params}, fault : {Some([stage |-> "verdicts", shape |-> "no_key"])},
     short : {"none"}]

\* the judge answers one question less about one of the two texts, or about
\* both, or it gives one answer more about both
ShortWorlds(kind) ==
    IF kind # "Summarization" THEN {}
    ELSE [labels : {<<yes>>},
          answers : ExampleAnswers \cup {<<[original |-> yes, summary |-> yes]>>},
          given : {Params}, fault : {None},
          short : {"original", "summary", "both", "more"}]

\* assessment_questions as passed to the constructor: absent, empty, or given
QuestionArgs(kind) ==
    IF kind # "Summarization" THEN {None}
    ELSE {None, Some(<<>>)} \cup {Some(SuppliedQuestions(n)) : n \in 1..MaxQuestions}

\* the threshold passed to the constructor: any for Bias and for a non-strict
\* Faithfulness; the default where strict mode replaces it or the score is a minimum
ThresholdArgs(kind, strict) ==
    IF kind = "Bias" \/ (kind = "Faithfulness" /\ ~strict) THEN Thresholds ELSE {Half}

InitEval ==
    /\ \E kind \in MetricKinds, strict \in BOOLEAN,
          native \in BOOLEAN, reason \in BOOLEAN, async_mode \in BOOLEAN :
          \E questions \in QuestionArgs(kind), threshold \in ThresholdArgs(kind, strict) :
             /\ metric = [m \in {1, 2} |->
                            Metric__init__(kind, threshold, reason, async_mode, strict,
                                           native, questions)]
             /\ caller = [pc |-> "a_measure", made |-> metric, got |-> None,
                          ret |-> None, exc |-> None, ctx |-> EmptyCtx,
                          threshold |-> threshold]
    /\ \E w \in EvalWorlds(metric[1].kind) \cup ShortWorlds(metric[1].kind) \cup
                 (IF metric[1].strict_mode \/ metric[1].threshold # Half THEN {}
                  ELSE FaultWorlds(metric[1].kind) \cup SilentWorlds(metric[1].kind)) :
          world = [c \in {1} |-> w]
    /\ task = [t \in {1, 2} |->
                 IF t = 1 THEN NewTask(1, 1, "a_measure")
                 ELSE [NewTask(2, 1, "_measure_async") EXCEPT !.st = "idle"]]
    /\ calls = [t \in {1, 2} |-> EmptyBag]
    /\ reads = {}

NextEval ==
    \/ NextConc
    \/ A_measure_completed
    \/ Measure_blocking
    \/ Measure_run_until_complete
    \/ Measure_completed

SpecEval == InitEval /\ [][NextEval]_vars

\* the caller of a_measure and measure can take its next step
EvalCanStep ==
    \/ caller.pc = "a_measure" /\ task[1].st \in {"done", "failed"}
    \/ caller.pc = "measure"
    \/ caller.pc = "run_until_complete" /\ task[2].st \in {"done", "failed"}

\* weak fairness of NextEval, written out in the same way as in SpecOrchFair
SpecEvalFair ==
    SpecEval /\ ([]<>(~(Runnable \/ EvalCanStep)) \/ []<><<TRUE>>_vars)

----------------------------------------------------------------------------
(* measure_metrics_with_indicator(metrics, test_case, cached_test_case),   *)
(* called once with the progress indicator shown, on metrics 1..NumMetrics, *)
(* and once with it hidden, on metrics built alike (NumMetrics+1 ..), with  *)
(* the same cached test case.                                              *)

MetricIds == 1..NumMetrics
Twin(i) == i + NumMetrics
Position(m) == IF m > NumMetrics THEN m - NumMetrics ELSE m

\* Cache.get_metric_data(metric, cached_test_case).metric_metadata, or None:
\* the stored result for the metric's signature, if there is one
Cache_get_metric_data(cache, m) == cache[Position(m)]

\* what a cached test case may hold for a metric: a result stored under the
\* metric's present configuration, or one stored under another threshold,
\* strictness and judge model
CachedMetadata ==
    { [score |-> Some(One), success |-> Some(TRUE),
       reason |-> Some([negatives |-> <<>>, redundancies |-> <<>>, questions |-> <<>>,
                        score |-> 100]),
       threshold |-> Half, strict_mode |-> FALSE, evaluation_model |-> "judge"],
      [score |-> Some(Zero), success |-> Some(FALSE), reason |-> None,
       threshold |-> One, strict_mode |-> TRUE, evaluation_model |-> "other"] }

\* a hit that takes the outcome but leaves the reason behind
AdoptState_outcome(m, metric_metadata) ==
    [m EXCEPT !.score = metric_metadata.score,
              !.success = metric_metadata.success]

\* measure_metric_task, cache hit: "only change metric state, not configs"
AdoptState(m, metric_metadata) ==
    [m EXCEPT !.score = metric_metadata.score,
              !.success = metric_metadata.success,
              !.reason = metric_metadata.reason]

\* measure_metrics_with_indicator without indicator, cache hit
AdoptAll(m, metric_metadata) ==
    [m EXCEPT !.score = metric_metadata.score,
              !.threshold = metric_metadata.threshold,
              !.success = metric_metadata.success,
              !.reason = metric_metadata.reason,
              !.strict_mode = metric_metadata.strict_mode,
              !.evaluation_model = metric_metadata.evaluation_model]

\* a_measure from its start to its first await
A_measure_start(S, t) ==
    LET S1 == [S EXCEPT !.metric[task[t].m] = ResetCost(@)]
    IN  IF ~check_llm_test_case_params(task[t].tc, MetricOf(t).kind)
        THEN Raise(S, t, "ValidationError")
        ELSE IF MetricOf(t).kind = "Bias"
             THEN Await(S1, t, "opinions", OpinionsPrompt(TestCase(task[t].tc).actual_output))
             ELSE Gather(S1, t, "extract", "truths", "claims")

\* with show_indicator(): one measure_metric_task per metric, gathered
Orchestrate_indicator ==
    /\ caller.pc = "indicator"
    /\ task' = [t \in DOMAIN task |->
                  IF t \in MetricIds THEN NewTask(t, 1, "measure_metric_task") ELSE task[t]]
    /\ caller' = [caller EXCEPT !.pc = "indicator_gather"]
    /\ UNCHANGED <<metric, calls, world, reads>>

\* measure_metric_task up to its first await, or to its end on a cache hit.
\* (progress.finished is false when it starts: its own progress task is not.)
measure_metric_task(t) ==
    /\ Runs(t, "main") /\ task[t].pc = "start" /\ task[t].coro = "measure_metric_task"
    /\ LET metric_metadata == Cache_get_metric_data(caller.cache, task[t].m)
       IN  IF ~IsNone(metric_metadata)
           THEN Apply([Cur EXCEPT !.metric[task[t].m] = AdoptState(@, The(metric_metadata)),
                                  !.task[t].st = "done", !.task[t].pc = "done"])
           ELSE Apply(A_measure_start(Cur, t))
    /\ UNCHANGED <<world, caller>>

\* a wait that is over with the first task that is
Joined_first(ts) == \E t \in ts : task[t].st \in {"done", "failed"}

\* a wait for every task to return, which an exception does not end
Joined_returned(ts) == \A t \in ts : task[t].st \in {"done", "idle"}

\* gather(*tasks) is over: every task returned, or one raised
Joined(ts) ==
    \/ \A t \in ts : task[t].st \in {"done", "idle"}
    \/ \E t \in ts : task[t].st = "failed"
\* gather(*tasks, return_exceptions=True): the exceptions are results
Failed_returned(ts) == FALSE
Failed(ts) == \E t \in ts : task[t].st = "failed"

\* `await asyncio.gather(*tasks)` resumes: with the exception of the gather,
\* which leaves measure_metrics_with_indicator (observed keeps what the
\* metrics and the judge had seen by then), or with the next statement
Resumed(ts, next) ==
    IF Failed(ts)
    THEN [caller EXCEPT !.pc = "raised",
                        !.observed = Some([metric |-> metric, calls |-> calls])]
    ELSE [caller EXCEPT !.pc = next]

Orchestrate_indicator_joined ==
    /\ caller.pc = "indicator_gather" /\ Joined(MetricIds)
    /\ caller' = Resumed(MetricIds, "plain")
    /\ UNCHANGED <<metric, task, calls, world, reads>>

\* without indicator: the loop over the metrics (hits copy, misses are
\* collected), up to `await asyncio.gather(*tasks)`
Orchestrate_plain ==
    /\ caller.pc = "plain"
    /\ metric' = [m \in DOMAIN metric |->
                    LET metric_metadata == Cache_get_metric_data(caller.cache, m)
                    IN  IF m \notin MetricIds /\ ~IsNone(metric_metadata)
                        THEN AdoptAll(metric[m], The(metric_metadata))
                        ELSE metric[m]]
    /\ task' = [t \in DOMAIN task |->
                  IF t \notin MetricIds /\ IsNone(Cache_get_metric_data(caller.cache, t))
                  THEN NewTask(t, 1, "a_measure") ELSE task[t]]
    /\ caller' = [caller EXCEPT !.pc = "plain_gather"]
    /\ UNCHANGED <<calls, world, reads>>

Orchestrate_plain_joined ==
    /\ caller.pc = "plain_gather" /\ Joined(DOMAIN task \ MetricIds)
    /\ caller' = Resumed(DOMAIN task \ MetricIds, "returned")
    /\ UNCHANGED <<metric, task, calls, world, reads>>

\* the metrics of the list: any kind for the first, Bias or Faithfulness for
\* the second, Bias for the others
OrchKinds(i) ==
    IF i = 1 THEN MetricKinds ELSE IF i = 2 THEN {"Bias", "Faithfulness"} ELSE {"Bias"}

\* the judge answers well, or it answers every opinions prompt with an object
\* that lacks the key, or every verdicts prompt with an object whose verdicts
\* are not a list of objects (then the list holds metrics whose verdicts
\* stage runs outside a gather); a failing judge is one without costs, in the
\* first variant of the world
OrchFaults ==
    {None, Some([stage |-> "opinions", shape |-> "no_key"]),
           Some([stage |-> "verdicts", shape |-> "not_list"])}

InitOrch ==
    /\ \E kinds \in [MetricIds -> MetricKinds], native \in BOOLEAN :
          /\ \A i \in MetricIds : kinds[i] \in OrchKinds(i)
          /\ metric = [m \in 1..(2 * NumMetrics) |->
                         Metric__init__(kinds[Position(m)], Half, TRUE, TRUE, FALSE,
                                        native, None)]
    /\ \E cache \in [MetricIds -> {None} \cup {Some(md) : md \in CachedMetadata}] :
          caller = [pc |-> "indicator", made |-> metric, cache |-> cache,
                    observed |-> None]
    /\ \E v \in 0..MaxVerdicts, fault \in OrchFaults :
          /\ world = [c \in {1} |-> [ConcEntry(1, v) EXCEPT !.fault = fault]]
          /\ ~IsNone(fault) => v = 0 /\ ~metric[1].using_native_model
          /\ fault = Some([stage |-> "verdicts", shape |-> "not_list"]) =>
                \A m \in DOMAIN metric : metric[m].kind # "Summarization"
    /\ task = [t \in 1..(2 * NumMetrics) |->
                 [NewTask(t, 1, "a_measure") EXCEPT !.st = "idle"]]
    /\ calls = [t \in 1..(2 * NumMetrics) |-> EmptyBag]
    /\ reads = {}

NextOrch ==
    \/ Orchestrate_indicator
    \/ \E t \in DOMAIN task : measure_metric_task(t)
    \/ Orchestrate_indicator_joined
    \/ Orchestrate_plain
    \/ Orchestrate_plain_joined
    \/ NextConc

SpecOrch == InitOrch /\ [][NextOrch]_vars

\* measure_metrics_with_indicator can take its next step: it is not waiting,
\* or the gather it waits for is over
OrchCanStep ==
    \/ caller.pc \in {"indicator", "plain"}
    \/ caller.pc = "indicator_gather" /\ Joined(MetricIds)
    \/ caller.pc = "plain_gather" /\ Joined(DOMAIN task \ MetricIds)

\* The loop runs whatever is ready to run, and every call of the judge returns
\* (the return of a call is the step that resumes the coroutine awaiting it):
\* weak fairness of NextOrch.  WF_vars(NextOrch) is written out with the
\* condition under which a step is possible, Runnable \/ OrchCanStep, in the
\* place of ENABLED <<NextOrch>>_vars; every step of the specification is a
\* step of NextOrch.
SpecOrchFair ==
    SpecOrch /\ ([]<>(~(Runnable \/ OrchCanStep)) \/ []<><<TRUE>>_vars)

----------------------------------------------------------------------------
(* Status queries.  The caller of SpecEval may ask a metric is_successful() *)
(* at any moment: before the metric was measured, while it is, after the   *)
(* evaluation returned or raised, after the runner recorded the exception  *)
(* on the metric, and after a cache hit filled the metric in.              *)

\* is_successful without its try/except: the comparison raises on a score
\* that is not set
is_successful_unguarded(m) ==
    IF ~IsNone(m.error)
    THEN [metric |-> [m EXCEPT !.success = Some(FALSE)], ret |-> Some(FALSE), exc |-> None]
    ELSE IF IsNone(m.score)
         THEN [metric |-> m, ret |-> None, exc |-> Some("TypeError")]
         ELSE [metric |-> [m EXCEPT !.success = Some(Passes(m, The(m.score)))],
               ret |-> Some(Passes(m, The(m.score))), exc |-> None]

\* BiasMetric.is_successful, FaithfulnessMetric.is_successful,
\* SummarizationMetric.is_successful: with self.score None the comparison raises
\* TypeError, which the bare except turns into success = False
is_successful(m) ==
    IF ~IsNone(m.error)
    THEN [metric |-> [m EXCEPT !.success = Some(FALSE)], ret |-> Some(FALSE), exc |-> None]
    ELSE IF IsNone(m.score)
         THEN [metric |-> [m EXCEPT !.success = Some(FALSE)], ret |-> Some(FALSE),
               exc |-> None]
         ELSE [metric |-> [m EXCEPT !.success = Some(Passes(m, The(m.score)))],
               ret |-> Some(Passes(m, The(m.score))), exc |-> None]

\* the caller asks metric m; it keeps the metric as it was, and the outcome
Is_successful(m) ==
    /\ caller.queries < MaxQueries
    /\ LET r == is_successful(metric[m])
       IN  /\ metric' = [metric EXCEPT ![m] = r.metric]
           /\ caller' = [caller EXCEPT !.queries = @ + 1,
                                       !.seen[m] = Some(metric[m]),
                                       !.answer[m] = r.ret,
                                       !.raised[m] = r.exc]
    /\ UNCHANGED <<task, calls, world, reads>>

\* the runner records on the metric the exception that ended its evaluation
Record_error(m) ==
    /\ IsNone(metric[m].error)
    /\ IF m = 1 THEN task[1].st = "failed" ELSE caller.pc = "raised"
    /\ metric' = [metric EXCEPT ![m].error = IF m = 1 THEN task[1].exc ELSE caller.exc]
    /\ UNCHANGED <<task, calls, world, caller, reads>>

\* what a metric built like m stored when it had scored s under threshold th
\* (its success is its own comparison of s and th); the entry is found again
\* whatever threshold the metric has now
StoredMetadata(m) ==
    { [score |-> Some(s), success |-> Some(Passes([m EXCEPT !.threshold = th], s)),
       reason |-> None, threshold |-> th, strict_mode |-> FALSE,
       evaluation_model |-> "judge"] : s \in Thresholds, th \in Thresholds }

\* instead of measuring metric 2, the caller finds it in the cache
Cache_hit ==
    /\ caller.pc = "measure"
    /\ \E md \in CachedMetadata \cup StoredMetadata(metric[2]) :
          \/ metric' = [metric EXCEPT ![2] = AdoptState(@, md)]
          \/ metric' = [metric EXCEPT ![2] = AdoptAll(@, md)]
    /\ caller' = [caller EXCEPT !.pc = "cached"]
    /\ UNCHANGED <<task, calls, world, reads>>

\* the judge's responses in the runs with status queries
StatusWorlds(kind) ==
    [labels : {<<>>, <<yes>>, <<yes, no>>},
     answers : {<<[original |-> yes, summary |-> yes]>>},
     given : {Params, {"input"}}, fault : {None}, short : {"none"}]
    \cup [labels : {<<yes>>}, answers : {<<[original |-> yes, summary |-> yes]>>},
          given : {Params},
          fault : {Some([stage |-> "reason", shape |-> "not_json"]),
                   Some([stage |-> "claims", shape |-> "no_key"])},
          short : {"none"}]

InitStatus ==
    /\ \E kind \in MetricKinds, native \in BOOLEAN, async_mode \in BOOLEAN :
          /\ metric = [m \in {1, 2} |->
                         Metric__init__(kind, Half, TRUE, async_mode, FALSE, native, None)]
          /\ caller = [pc |-> "a_measure", made |-> metric, got |-> None,
                       ret |-> None, exc |-> None, ctx |-> EmptyCtx,
                       threshold |-> Half, queries |-> 0,
                       seen |-> [m \in {1, 2} |-> None],
                       answer |-> [m \in {1, 2} |-> None],
                       raised |-> [m \in {1, 2} |-> None]]
    /\ \E w \in StatusWorlds(metric[1].kind) : world = [c \in {1} |-> w]
    /\ task = [t \in {1, 2} |->
                 IF t = 1 THEN NewTask(1, 1, "a_measure")
                 ELSE [NewTask(2, 1, "_measure_async") EXCEPT !.st = "idle"]]
    /\ calls = [t \in {1, 2} |-> EmptyBag]
    /\ reads = {}

NextStatus ==
    \/ NextEval
    \/ \E m \in {1, 2} : Is_successful(m)
    \/ \E m \in {1, 2} : Record_error(m)
    \/ Cache_hit

SpecStatus == InitStatus /\ [][NextStatus]_vars

----------------------------------------------------------------------------
(* track(event_name, ..., fail_silently, raise_expection, run_async): the   *)
(* analytics event.  What its collaborators do is the environment of a     *)
(* call: whether APIEvent accepts the fields, whether the event has         *)
(* model_dump (pydantic 2) or only dict, and what api.post_request does:    *)
(* it raises, or it returns a result with or without an "eventId".         *)

EventIds == {"event-1", "event-2"}
TrackEnvs ==
    [valid : BOOLEAN, model_dump : BOOLEAN,
     result : {"raises", "no_eventId"} \cup EventIds]

\* the exception that the body of the `try` raises, if any: the first of
\* APIEvent(...), api.post_request(...) and result["eventId"] that fails (a
\* missing model_dump is caught inside and answered with dict())
track_try(env) ==
    IF ~env.valid THEN Some("ValidationError")
    ELSE IF env.result = "raises" THEN Some("RequestError")
    ELSE IF env.result = "no_eventId" THEN Some("KeyError")
    ELSE None

\* a handler that looks at raise_expection first
track_raising(fail_silently, raise_expection, env) ==
    IF IsNone(track_try(env))
    THEN [ret |-> Some(env.result), raised |-> None, printed |-> <<>>]
    ELSE IF raise_expection
    THEN [ret |-> None, raised |-> track_try(env), printed |-> <<>>]
    ELSE IF fail_silently
    THEN [ret |-> None, raised |-> None, printed |-> <<>>]
    ELSE [ret |-> None, raised |-> None, printed |-> <<The(track_try(env))>>]

\* track: what it returns, what it raises and what it prints
track(fail_silently, raise_expection, env) ==
    IF IsNone(track_try(env))
    THEN [ret |-> Some(env.result), raised |-> None, printed |-> <<>>]
    ELSE IF fail_silently
    THEN [ret |-> None, raised |-> None, printed |-> <<>>]
    ELSE IF raise_expection
    THEN [ret |-> None, raised |-> track_try(env), printed |-> <<>>]
    ELSE [ret |-> None, raised |-> None, printed |-> <<The(track_try(env))>>]

\* the caller calls track and catches what it raises; stdout keeps what was
\* printed so far
Track(fail_silently, raise_expection, env) ==
    /\ caller.pc = "track" /\ caller.n < MaxCalls
    /\ caller' = [caller EXCEPT
                     !.n = @ + 1,
                     !.fail_silently = fail_silently,
                     !.raise_expection = raise_expection,
                     !.env = Some(env),
                     !.out = Some(track(fail_silently, raise_expection, env)),
                     !.before = caller.stdout,
                     !.stdout = @ \o track(fail_silently, raise_expection, env).printed]
    /\ UNCHANGED <<metric, task, calls, world, reads>>

InitTrack ==
    /\ caller = [pc |-> "track", n |-> 0, fail_silently |-> FALSE,
                 raise_expection |-> FALSE, env |-> None, out |-> None,
                 before |-> <<>>, stdout |-> <<>>]
    /\ metric = <<>> /\ task = <<>> /\ calls = <<>> /\ world = <<>> /\ reads = {}

NextTrack ==
    \E fail_silently \in BOOLEAN, raise_expection \in BOOLEAN, env \in TrackEnvs :
        Track(fail_silently, raise_expection, env)

SpecTrack == InitTrack /\ [][NextTrack]_vars

----------------------------------------------------------------------------
(* Claims about concurrent evaluation.                                     *)

RECURSIVE SeqBefore(_)
\* the metric object before the t-th of the evaluations run one after another
SeqBefore(t) ==
    IF t = 1 THEN caller.made[1] ELSE Measure_sync(SeqBefore(t - 1), t - 1).metric
\* ... and what the t-th evaluation then yields
SeqResult(t) == Measure_sync(SeqBefore(t), t)

Finished(t) == task[t].st \in {"done", "failed"}

\* C1: every gathered evaluation of a shared metric ends with the score that the
\* same evaluation yields when the N evaluations run one after another.
C1_ConcurrentAsSequential ==
    \A t \in DOMAIN task :
        Finished(t) => task[t].st = "done" /\ task[t].ret = SeqResult(t).ret

\* C1 holds of the metrics whose evaluations touch no shared attribute that a
\* later stage reads: Bias and Faithfulness
C1_BiasFaithfulness ==
    metric[1].kind # "Summarization" => C1_ConcurrentAsSequential

\* C2: whatever stage output a task reads was written by that task (writer =
\* reader), or is the unset default (writer 0).
C2_StageOutputsIsolated ==
    \A r \in reads : r[3] \in {0, r[1]}

\* C2 witness: two evaluations in flight on one Summarization metric, each
\* having written its claims, one of them having read them back in a later step.
C2_Witness ==
    \E t \in DOMAIN task, u \in DOMAIN task :
        /\ t # u
        /\ ~Finished(t) /\ ~Finished(u)
        /\ ~IsNone(task[t].ctx["claims"]) /\ ~IsNone(task[u].ctx["claims"])
        /\ The(task[t].ctx["claims"]).v # The(task[u].ctx["claims"]).v
        /\ <<t, "claims", t>> \in reads

\* C3: while evaluations run, no plain attribute of the shared metric object is
\* written: every step leaves the metric object as it was.
C3_NoSharedWrite == [][metric' = metric]_vars

\* C3, for the one attribute that a later stage of another evaluation reads
C3_QuestionsNotWritten ==
    [][metric'[1].assessment_questions = metric[1].assessment_questions]_vars

----------------------------------------------------------------------------
(* Claims about one evaluation: measure() against a_measure(), and scores. *)

\* the evaluation of metric m has set its results
Measured(m) == ~IsNone(metric[m].success)

\* C4: measure() on one metric returns what a_measure() on a metric built alike
\* returned for the same test case, and leaves the same score, reason, success.
C4_MeasureAsAMeasure ==
    caller.pc = "returned" =>
        /\ caller.ret = caller.got
        /\ metric[2].score = metric[1].score
        /\ metric[2].reason = metric[1].reason
        /\ metric[2].success = metric[1].success

\* what is left of C4: the attributes agree, whatever measure() returned
C4_SameAttributes ==
    caller.pc = "returned" =>
        /\ metric[2].score = metric[1].score
        /\ metric[2].reason = metric[1].reason
        /\ metric[2].success = metric[1].success

\* a Some(<<n, d>>) with 0 <= n/d <= 1, or None
InUnit(o) == IsNone(o) \/ (The(o)[2] > 0 /\ 0 <= The(o)[1] /\ The(o)[1] <= The(o)[2])

\* C8: every score an evaluation computes, stores or returns lies between 0
\* and 1, the alignment and coverage scores of a Summarization included.
C8_ScoreInUnitInterval ==
    /\ \A m \in DOMAIN metric : InUnit(metric[m].score)
    /\ \A t \in DOMAIN task :
          /\ InUnit(task[t].ret)
          /\ \A v \in {"alignment_score", "coverage_score"} : InUnit(Untagged(task[t].ctx[v]))
    /\ InUnit(caller.ret) /\ InUnit(caller.got)
    /\ \A v \in {"alignment_score", "coverage_score"} : InUnit(caller.ctx[v])

\* C8 witness: strict and non-strict evaluations that scored a list with a label
\* outside yes/no/idk strictly between 0 and 1, and one that scored no verdicts.
C8_Witness ==
    /\ Measured(1) /\ Measured(2)
    /\ \/ /\ world[1].labels = << <<"y", " ", "e", "s">>, no >>
          /\ metric[1].kind = "Faithfulness" /\ ~metric[1].strict_mode
          /\ metric[1].score = Some(Half)
       \/ /\ world[1].labels = <<>> /\ metric[1].kind = "Faithfulness"
          /\ metric[1].strict_mode /\ metric[1].score = Some(One)

\* the labels that read "yes" once spaces are trimmed and case is folded
YesLabels == { <<"y", "e", "s">>, <<" ", "Y", "e", "s", " ">> }
\* how many of the judge's verdicts on the test case say yes
YesCount == Cardinality({i \in 1..Len(world[1].labels) : world[1].labels[i] \in YesLabels})
Total == Len(world[1].labels)

\* C9: a non-strict Bias evaluation scores YesCount / Total (0 for no verdicts),
\* returns that score, and succeeds iff the score is at most the threshold.
C9_BiasScore ==
    \A m \in DOMAIN metric :
        (metric[m].kind = "Bias" /\ ~metric[m].strict_mode /\ Measured(m)) =>
            LET score == The(metric[m].score)
                threshold == metric[m].threshold
            IN  /\ score[2] > 0
                /\ IF Total = 0 THEN score[1] = 0
                   ELSE score[1] * Total = YesCount * score[2]
                /\ world[1].labels = <<yes, no, no, no>> => score = <<1, 4>>
                /\ The(metric[m].success) = (score[1] * threshold[2] <= threshold[1] * score[2])
                /\ task[m].st = "done" => task[m].ret = metric[m].score

\* C9 witness: non-strict Bias evaluations of verdicts " Yes ", "no" and of the
\* documented [yes, no, no, no].
C9_Witness ==
    /\ metric[1].kind = "Bias" /\ ~metric[1].strict_mode /\ Measured(1)
    /\ \/ world[1].labels = <<yes, no, no, no>> /\ metric[1].score = Some(<<1, 4>>)
       \/ world[1].labels = << <<" ", "Y", "e", "s", " ">>, no >>
          /\ metric[1].score = Some(Half)

\* C10: a strict Bias metric has threshold 0 whatever was passed; its evaluation
\* scores, and returns, 1 if some verdict says yes and 0 if none does, and
\* succeeds iff none does.
C10_BiasStrict ==
    \A m \in DOMAIN metric :
        (metric[m].kind = "Bias" /\ metric[m].strict_mode) =>
            /\ metric[m].threshold = <<0, 1>>
            /\ Measured(m) =>
                  /\ metric[m].score = Some(IF YesCount > 0 THEN <<1, 1>> ELSE <<0, 1>>)
                  /\ The(metric[m].success) = (YesCount = 0)
                  /\ task[m].st = "done" => task[m].ret = metric[m].score

\* C10 witness: a strict Bias metric constructed with threshold 1 that has
\* evaluated [yes, no, no, no]: score 1, success false.
C10_Witness ==
    /\ metric[1].kind = "Bias" /\ metric[1].strict_mode /\ caller.threshold = One
    /\ world[1].labels = <<yes, no, no, no>>
    /\ task[1].st = "done" /\ task[1].ret = Some(One)
    /\ metric[1].success = Some(FALSE)

----------------------------------------------------------------------------
(* Claims about the orchestrator and the cache.                            *)

\* the cached result for the signature of metric m, if any
Cached(m) == caller.cache[Position(m)]
\* the call of measure_metrics_with_indicator that was given metric m has returned
OrchReturned(m) ==
    IF m \in MetricIds THEN caller.pc \in {"plain", "plain_gather", "returned"}
    ELSE caller.pc = "returned"

\* C5: for a metric with a cached result the orchestrator sends nothing to the
\* judge, with or without progress indicator, and when it returns the metric's
\* score, success and reason are the cached ones.
C5_CacheHitShortCircuits ==
    \A m \in DOMAIN metric :
        ~IsNone(Cached(m)) =>
            /\ calls[m] = EmptyBag
            /\ OrchReturned(m) =>
                  /\ metric[m].score = The(Cached(m)).score
                  /\ metric[m].success = The(Cached(m)).success
                  /\ metric[m].reason = The(Cached(m)).reason

\* C5 witness: both calls have returned; the first metric was cached with a
\* reason and holds it in both, the second was measured live in both.
C5_Witness ==
    /\ caller.pc = "returned"
    /\ ~IsNone(Cached(1)) /\ ~IsNone(The(Cached(1)).reason)
    /\ metric[1].reason = The(Cached(1)).reason
    /\ metric[Twin(1)].reason = The(Cached(1)).reason
    /\ IsNone(Cached(2))
    /\ calls[2] # EmptyBag /\ calls[Twin(2)] # EmptyBag

\* C6: when the orchestrator has returned, a metric with a cached result holds
\* the cached score, success, reason, threshold and evaluation model.
C6_HitAdoptsConfiguration ==
    \A m \in DOMAIN metric :
        (~IsNone(Cached(m)) /\ OrchReturned(m)) =>
            /\ metric[m].score = The(Cached(m)).score
            /\ metric[m].success = The(Cached(m)).success
            /\ metric[m].reason = The(Cached(m)).reason
            /\ metric[m].threshold = The(Cached(m)).threshold
            /\ metric[m].evaluation_model = The(Cached(m)).evaluation_model

\* C7: with and without progress indicator, the orchestrator leaves metrics
\* built alike in the same state and sends the judge the same prompts.
C7_IndicatorChangesNothing ==
    caller.pc = "returned" =>
        \A i \in MetricIds :
            /\ metric[i].score = metric[Twin(i)].score
            /\ metric[i].success = metric[Twin(i)].success
            /\ metric[i].reason = metric[Twin(i)].reason
            /\ metric[i].threshold = metric[Twin(i)].threshold
            /\ metric[i].strict_mode = metric[Twin(i)].strict_mode
            /\ metric[i].evaluation_model = metric[Twin(i)].evaluation_model
            /\ calls[i] = calls[Twin(i)]

\* what does hold of C7: the outcome and the judge calls are the same; the
\* configuration is on a miss
C7_SameOutcome ==
    caller.pc = "returned" =>
        \A i \in MetricIds :
            /\ metric[i].score = metric[Twin(i)].score
            /\ metric[i].success = metric[Twin(i)].success
            /\ metric[i].reason = metric[Twin(i)].reason
            /\ calls[i] = calls[Twin(i)]
            /\ IsNone(Cached(i)) =>
                  /\ metric[i].threshold = metric[Twin(i)].threshold
                  /\ metric[i].strict_mode = metric[Twin(i)].strict_mode
                  /\ metric[i].evaluation_model = metric[Twin(i)].evaluation_model

----------------------------------------------------------------------------
(* Claims about the Faithfulness and Summarization scores.                 *)

\* the labels that read "no" once spaces are trimmed and case is folded
NoLabels == { <<"n", "o">>, <<"N", "O", " ">> }
\* how many of the judge's verdicts on the test case say no
NoCount == Cardinality({i \in 1..Len(world[1].labels) : world[1].labels[i] \in NoLabels})

\* C11: a non-strict Faithfulness evaluation scores (Total - NoCount) / Total,
\* and 1 for no verdicts; it returns that score and succeeds iff the score is at
\* least the threshold (so always, with no verdicts).
C11_FaithfulnessScore ==
    \A m \in DOMAIN metric :
        (metric[m].kind = "Faithfulness" /\ ~metric[m].strict_mode /\ Measured(m)) =>
            LET score == The(metric[m].score)
                threshold == metric[m].threshold
            IN  /\ score[2] > 0
                /\ IF Total = 0 THEN score = <<1, 1>> /\ metric[m].success = Some(TRUE)
                   ELSE score[1] * Total = (Total - NoCount) * score[2]
                /\ The(metric[m].success) = (threshold[1] * score[2] <= score[1] * threshold[2])
                /\ task[m].st = "done" => task[m].ret = metric[m].score

\* C11 witness: non-strict Faithfulness evaluations of verdicts "NO ", "idk"
\* (score 1/2) and of no verdicts at all (score 1, success).
C11_Witness ==
    /\ metric[1].kind = "Faithfulness" /\ ~metric[1].strict_mode /\ Measured(1)
    /\ \/ world[1].labels = << <<"N", "O", " ">>, idk >> /\ metric[1].score = Some(Half)
       \/ /\ world[1].labels = <<>> /\ metric[1].score = Some(One)
          /\ metric[1].success = Some(TRUE) /\ metric[1].threshold = One

\* C12: a strict Faithfulness metric has threshold 1 whatever was passed; its
\* evaluation scores, and returns, 0 if some verdict says no and 1 if none does
\* (no verdicts included), and succeeds iff none does.
C12_FaithfulnessStrict ==
    \A m \in DOMAIN metric :
        (metric[m].kind = "Faithfulness" /\ metric[m].strict_mode) =>
            /\ metric[m].threshold = <<1, 1>>
            /\ Measured(m) =>
                  /\ metric[m].score = Some(IF NoCount > 0 THEN <<0, 1>> ELSE <<1, 1>>)
                  /\ The(metric[m].success) = (NoCount = 0)
                  /\ task[m].st = "done" => task[m].ret = metric[m].score

\* C12 witness: a strict Faithfulness metric constructed with threshold 1/2
\* that has evaluated ["no", "yes"]: score 0, success false.
C12_Witness ==
    /\ metric[1].kind = "Faithfulness" /\ metric[1].strict_mode /\ caller.threshold = Half
    /\ world[1].labels = <<no, yes>>
    /\ task[1].st = "done" /\ task[1].ret = Some(Zero)
    /\ metric[1].success = Some(FALSE)

\* the stage outputs of the evaluations: those of each task, and those
\* measure() left in the caller's context
Contexts ==
    {[v \in StageVars |-> Untagged(task[t].ctx[v])] : t \in DOMAIN task} \cup {caller.ctx}
\* the contexts of the evaluations that got as far as the sub-scores
Scored == {c \in Contexts : ~IsNone(c["coverage_score"])}

\* the coverage pairs of context c whose original verdict is yes, and those
\* among them whose summary verdict is yes too
Asked(c) ==
    LET cv == The(c["coverage_verdicts"])
    IN  {i \in 1..Len(cv) : cv[i].original_verdict \in YesLabels}
Covered(c) ==
    LET cv == The(c["coverage_verdicts"])
    IN  {i \in Asked(c) : cv[i].summary_verdict \in YesLabels}
\* score s is the fraction n / d, or 0 when d is 0
IsFraction(s, n, d) ==
    s[2] > 0 /\ (IF d = 0 THEN s[1] = 0 ELSE s[1] * d = n * s[2])
\* the documented pairs: original [yes, yes, no], summary [yes, no, no]
IsExample(c) ==
    LET cv == The(c["coverage_verdicts"])
    IN  /\ Len(cv) = 3
        /\ [i \in 1..3 |-> cv[i].original_verdict] = <<yes, yes, no>>
        /\ [i \in 1..3 |-> cv[i].summary_verdict] = <<yes, no, no>>

C14_NoQuestionsCoverageOne ==
    (metric[1].kind = "Summarization" /\ IsNone(caller.made[1].assessment_questions)) =>
        \A c \in Scored : c["coverage_score"] = Some(<<1, 1>>)

\* the stage outputs of the evaluation that measured metric m
ContextOf(m) ==
    IF m = 2 /\ task[2].st = "idle" THEN caller.ctx
    ELSE [v \in StageVars |-> Untagged(task[m].ctx[v])]
\* the alignment verdicts of context c that say yes
Aligned(c) ==
    LET av == The(c["alignment_verdicts"])
    IN  {i \in 1..Len(av) : av[i].verdict \in YesLabels}
\* score s is the smaller of a and b
IsMin(s, a, b) ==
    IF a[1] * b[2] <= b[1] * a[2] THEN s = a ELSE s = b
\* the final score of metric m is the smaller sub-score; it is returned, and
\* success is its comparison with the threshold
FinalScore(m) ==
    LET c == ContextOf(m)
        score == The(metric[m].score)
        threshold == metric[m].threshold
    IN  /\ IsMin(score, The(c["alignment_score"]), The(c["coverage_score"]))
        /\ The(metric[m].success) = (threshold[1] * score[2] <= score[1] * threshold[2])
        /\ task[m].st = "done" => task[m].ret = metric[m].score
AlignmentFraction(m) ==
    LET c == ContextOf(m)
    IN  IsFraction(The(c["alignment_score"]), Cardinality(Aligned(c)),
                   Len(The(c["alignment_verdicts"])))

\* C15 as stated: in every mode the alignment score of a Summarization is
\* (verdicts saying yes) / total, 0 without verdicts; the final score is the
\* smaller of alignment and coverage; success iff final score >= threshold.
C15_SummarizationScore ==
    \A m \in DOMAIN metric :
        (metric[m].kind = "Summarization" /\ Measured(m)) =>
            AlignmentFraction(m) /\ FinalScore(m)

\* C15 amended: the alignment score is that fraction in non-strict mode; the
\* final score and success are as stated in every mode.
C15_SummarizationScoreNonStrict ==
    \A m \in DOMAIN metric :
        (metric[m].kind = "Summarization" /\ Measured(m)) =>
            /\ ~metric[m].strict_mode => AlignmentFraction(m)
            /\ FinalScore(m)

\* C15 witness: a non-strict Summarization has evaluated alignment verdicts
\* [yes, idk] with full coverage: alignment 1/2, final score 1/2, success.
C15_Witness ==
    /\ metric[1].kind = "Summarization" /\ ~metric[1].strict_mode /\ Measured(1)
    /\ world[1].labels = <<yes, idk>>
    /\ ContextOf(1)["alignment_score"] = Some(Half)
    /\ ContextOf(1)["coverage_score"] = Some(One)
    /\ metric[1].score = Some(Half) /\ metric[1].success = Some(TRUE)

\* every alignment verdict of context c says yes, and there is one
AllAligned(c) ==
    Len(The(c["alignment_verdicts"])) >= 1
    /\ Cardinality(Aligned(c)) = Len(The(c["alignment_verdicts"]))
\* strict mode: threshold 1; sub-scores and final score are 0 or 1
StrictExtremes(m) ==
    /\ metric[m].threshold = <<1, 1>>
    /\ Measured(m) =>
          /\ ContextOf(m)["alignment_score"] \in {Some(<<0, 1>>), Some(<<1, 1>>)}
          /\ ContextOf(m)["coverage_score"] \in {Some(<<0, 1>>), Some(<<1, 1>>)}
          /\ metric[m].score \in {Some(<<0, 1>>), Some(<<1, 1>>)}

\* C16 as stated: a strict Summarization has threshold 1, scores that are 0 or
\* 1, and succeeds iff all alignment verdicts (at least one) say yes and every
\* question the original answers yes is answered yes by the summary.
C16_SummarizationStrict ==
    \A m \in DOMAIN metric :
        (metric[m].kind = "Summarization" /\ metric[m].strict_mode) =>
            /\ StrictExtremes(m)
            /\ Measured(m) =>
                  The(metric[m].success) =
                     (AllAligned(ContextOf(m)) /\ Covered(ContextOf(m)) = Asked(ContextOf(m)))

\* C16 amended: ... and succeeds iff all alignment verdicts (at least one) say
\* yes, the original answers yes to at least one question, and the summary
\* answers yes to every such question.
C16_SummarizationStrictAsked ==
    \A m \in DOMAIN metric :
        (metric[m].kind = "Summarization" /\ metric[m].strict_mode) =>
            /\ StrictExtremes(m)
            /\ Measured(m) =>
                  The(metric[m].success) =
                     (/\ AllAligned(ContextOf(m))
                      /\ Asked(ContextOf(m)) # {}
                      /\ Covered(ContextOf(m)) = Asked(ContextOf(m)))

\* C16 witness: a strict Summarization constructed with threshold 1/2 has
\* evaluated alignment [yes] and two questions, both answered yes twice: success.
C16_Witness ==
    /\ metric[1].kind = "Summarization" /\ metric[1].strict_mode /\ Measured(1)
    /\ caller.threshold = Half /\ metric[1].threshold = One
    /\ AllAligned(ContextOf(1))
    /\ Cardinality(Asked(ContextOf(1))) = 2 /\ Covered(ContextOf(1)) = Asked(ContextOf(1))
    /\ metric[1].score = Some(One) /\ metric[1].success = Some(TRUE)

----------------------------------------------------------------------------
(* Errors.                                                                 *)

\* the test case lacks a field that the metric requires
LacksField ==
    \/ "input" \notin world[1].given
    \/ "actual_output" \notin world[1].given
    \/ metric[1].kind = "Faithfulness" /\ "retrieval_context" \notin world[1].given

\* C17: when the test case lacks a required field, a_measure (task 1) and
\* measure (the caller, on metric 2) end with a validation error and nothing
\* else: no judge call is issued, the metrics stay as constructed, no stage
\* output is set, and neither call returns a value
C17_ValidationFailsFast ==
    LacksField =>
        /\ \A t \in {1, 2} : calls[t] = EmptyBag
        /\ metric = caller.made
        /\ \A t \in {1, 2} : task[t].ctx = EmptyCtx
        /\ caller.ctx = EmptyCtx /\ IsNone(caller.got) /\ IsNone(caller.ret)
        /\ task[1].pc # "start" => task[1].st = "failed" /\ task[1].exc = Some("ValidationError")
        /\ task[2].st = "idle"
        /\ caller.pc \in {"a_measure", "measure", "raised"}
        /\ caller.pc = "raised" => caller.exc = Some("ValidationError")

\* both calls have failed on a test case without its actual_output
C17_Witness ==
    /\ "actual_output" \notin world[1].given
    /\ task[1].st = "failed" /\ caller.pc = "raised"
    /\ caller.exc = Some("ValidationError")

\* the judge answers one stage of the evaluation with a response that holds
\* no JSON object with the stage's key
Faulted ==
    /\ ~IsNone(world[1].fault)
    /\ The(world[1].fault).stage = "reason" => metric[1].include_reason
    /\ The(world[1].fault).stage = "questions" => IsNone(caller.made[1].assessment_questions)

\* the evaluation of metric m has ended with an exception
Aborted(m) == IF m = 1 THEN task[1].st = "failed" ELSE caller.pc = "raised"

\* the exception that ended the evaluation of metric m
AbortedWith(m) == IF m = 1 THEN task[1].exc ELSE caller.exc

\* C18: when the response of a stage holds no JSON object with the stage's
\* key, no evaluation returns a result, and the exception that ends an
\* evaluation is the parse error
C18_ParseErrorTagged ==
    Faulted =>
        /\ task[1].st # "done" /\ caller.pc # "returned"
        /\ \A m \in {1, 2} : Aborted(m) => AbortedWith(m) = Some("ParseError")

\* the questions that the two answer prompts carry: those given to the
\* constructor, or one generated question for each answer the judge holds
QuestionCount ==
    IF IsNone(caller.made[1].assessment_questions)
    THEN Len(world[1].answers)
    ELSE Len(The(caller.made[1].assessment_questions))

\* the answers about the input and the answers about the summary differ in length
Mismatch ==
    /\ metric[1].kind = "Summarization"
    /\ world[1].short \in {"original", "summary"}
    /\ QuestionCount > 0

\* C19: when the two answer lists differ in length, a_measure (task 1) and
\* measure (the caller, on metric 2), blocking or not, end with the
\* length-mismatch ValueError and with nothing else; score, reason and
\* success stay unset and no reason prompt is sent to the judge
C19_LengthMismatchRaises ==
    Mismatch =>
        /\ task[1].st # "done" /\ caller.pc # "returned"
        /\ \A m \in {1, 2} : Aborted(m) => AbortedWith(m) = Some("ValueError")
        /\ \A m \in {1, 2} : /\ IsNone(metric[m].score)
                              /\ IsNone(metric[m].reason)
                              /\ IsNone(metric[m].success)
        /\ \A t \in {1, 2} : \A p \in BagToSet(calls[t]) : p.stage # "reason"

\* three answers about the input against two about the summary: both calls
\* have ended with the ValueError, the second in the blocking pipeline
C19_Witness ==
    /\ Mismatch /\ Len(world[1].answers) = 3 /\ world[1].short = "summary"
    /\ IsNone(caller.made[1].assessment_questions)
    /\ ~metric[2].async_mode
    /\ task[1].exc = Some("ValueError") /\ task[1].st = "failed"
    /\ caller.pc = "raised" /\ caller.exc = Some("ValueError")

\* ... and the second through run_until_complete
C19_WitnessAsync ==
    /\ Mismatch /\ metric[2].async_mode
    /\ task[1].st = "failed" /\ task[2].st = "failed"
    /\ caller.pc = "raised" /\ caller.exc = Some("ValueError")

----------------------------------------------------------------------------
(* Status queries.                                                         *)

\* what is_successful is to answer on a metric in state s: false when an
\* error is recorded or no score is set, otherwise score <= threshold for
\* Bias and score >= threshold for the other two
Expected(s) ==
    IF s.error # <<>> \/ s.score = <<>> THEN FALSE
    ELSE IF s.kind = "Bias"
         THEN s.score[1][1] * s.threshold[2] <= s.threshold[1] * s.score[1][2]
         ELSE s.score[1][1] * s.threshold[2] >= s.threshold[1] * s.score[1][2]

\* C20: whatever state the metric was in when is_successful was called, the
\* call raised nothing and answered false on a recorded error or an unset
\* score, and the metric's comparison of score and threshold otherwise
C20_IsSuccessfulNeverRaises ==
    \A m \in {1, 2} :
        caller.seen[m] # <<>> =>
            /\ caller.raised[m] = <<>>
            /\ caller.answer[m] = <<Expected(caller.seen[m][1])>>

\* asked before it was ever measured, the metric answers false
C20_Witness ==
    /\ caller.seen[2] # <<>> /\ caller.seen[2][1].score = <<>>
    /\ caller.seen[2][1].error = <<>>
    /\ caller.answer[2] = <<FALSE>>

\* asked after the runner recorded the exception of a failed evaluation that
\* had set the score, the metric answers false
C20_WitnessError ==
    /\ caller.seen[1] # <<>> /\ caller.seen[1][1].error # <<>>
    /\ caller.seen[1][1].score # <<>>
    /\ caller.answer[1] = <<FALSE>>

\* asked after a cache hit filled it in, the metric answers by comparison
C20_WitnessCached ==
    /\ caller.pc = "cached" /\ caller.seen[2] # <<>>
    /\ caller.seen[2][1].score # <<>> /\ caller.answer[2] = <<TRUE>>

\* asked after it was measured, the metric answers by comparison
C20_WitnessMeasured ==
    /\ caller.seen[1] # <<>> /\ task[1].st = "done"
    /\ caller.seen[1][1].success # <<>> /\ caller.answer[1] = <<TRUE>>

----------------------------------------------------------------------------
(* Retries.                                                                *)

\* C21: in one call of measure_metrics_with_indicator, a_measure is started at
\* most once for each metric that misses the cache, no stage sends its prompt
\* to the judge twice, whatever exception a stage raises, and the call does
\* not return normally when an evaluation has failed.
C21_NoRetry ==
    /\ \A t \in DOMAIN task :
          /\ task[t].coro # "a_measure_again"
          /\ \A p \in BagToSet(calls[t]) : CopiesIn(p, calls[t]) = 1
    /\ caller.pc = "returned" => \A t \in DOMAIN task : task[t].st # "failed"

\* the part of C21 that holds: an exception other than TypeError ends the
\* evaluation at the stage that raised it
C21_OtherErrorsAbort ==
    \A t \in DOMAIN task :
        (task[t].st = "failed" /\ task[t].exc # Some("TypeError")) =>
            /\ task[t].coro # "a_measure_again"
            /\ \A p \in BagToSet(calls[t]) : CopiesIn(p, calls[t]) = 1
            /\ caller.pc # "returned"

----------------------------------------------------------------------------
(* The order of the stages.                                                *)

Called(t, stage) == \E p \in BagToSet(calls[t]) : p.stage = stage
Active(t) == task[t].st # "idle"
KindOf(t) == metric[task[t].m].kind
VerdictStages == {"verdicts", "questions", "answers"}
ExtractionReturned(t) ==
    IF KindOf(t) = "Bias" THEN task[t].ctx["opinions"] # <<>>
    ELSE task[t].sub["truths"].st = "done" /\ task[t].sub["claims"].st = "done"
Waiting(t) == {s \in SubNames \cup {"main"} : StateOf(t, s) = "io"}
HasScore(t) == metric[task[t].m].score # <<>>

\* C22: in an evaluation, no prompt of the verdict stage (verdicts, and the
\* questions and answers of the coverage verdicts) is sent before every
\* extraction call has returned; the score is written only when no stage is
\* running any more; the reason prompt is sent only when the score is
\* written; and two judge calls are awaited at once only if both are
\* extraction calls or both belong to the coverage and alignment verdicts.
C22_StageOrder ==
    \A t \in DOMAIN task : Active(t) =>
        /\ (\E s \in VerdictStages : Called(t, s)) => ExtractionReturned(t)
        /\ HasScore(t) =>
              /\ task[t].st \in {"done", "failed"}
              /\ \A s \in SubNames : task[t].sub[s].st \in {"idle", "done"}
        /\ Called(t, "reason") => HasScore(t)
        /\ \/ Waiting(t) \subseteq {"main"}
           \/ Waiting(t) \subseteq {"truths", "claims"}
           \/ Waiting(t) \subseteq {"coverage", "alignment", "ans_original", "ans_summary"}

\* a Summarization evaluation went through every stage
C22_Witness ==
    /\ KindOf(1) = "Summarization" /\ task[1].st = "done"
    /\ Called(1, "claims") /\ Called(1, "questions") /\ Called(1, "answers")
    /\ Called(1, "verdicts") /\ Called(1, "reason")

\* the alignment verdicts and an answers call are awaited at once
C22_WitnessOverlap ==
    {"alignment", "ans_original"} \subseteq Waiting(1)

----------------------------------------------------------------------------
(* The assessment questions of an evaluation.                              *)

\* the answers prompts that evaluation t has sent
AnswersPrompts(t) == {p \in BagToSet(calls[t]) : p.stage = "answers"}
\* the questions prompts that evaluation t has sent, each as often as sent
QuestionsCalls(t) ==
    {<<p, k>> \in BagToSet(calls[t]) \X (1..NumTasks) :
        p.stage = "questions" /\ k <= CopiesIn(p, calls[t])}

\* C23: on a Summarization metric made without questions, an evaluation that
\* asks for answers has generated its questions with one judge call, from
\* the input of its own test case, and both of its answers prompts carry
\* that list: one question for each answer pair of its test case, every one
\* generated from its test case.
C23_OwnQuestions ==
    \A t \in DOMAIN task :
        (caller.made[1].kind = "Summarization"
            /\ caller.made[1].assessment_questions = <<>>
            /\ AnswersPrompts(t) # {}) =>
        /\ Cardinality(QuestionsCalls(t)) = 1
        /\ \A q \in QuestionsCalls(t) : q[1].text = <<"input", task[t].tc, 0>>
        /\ \A p \in AnswersPrompts(t) :
              /\ Len(p.items) = Len(world[task[t].tc].answers)
              /\ \A j \in 1..Len(p.items) : p.items[j] = <<"question", task[t].tc, j>>

----------------------------------------------------------------------------
(* Configuration.                                                          *)

Configuration(m) ==
    <<m.threshold, m.strict_mode, m.include_reason, m.async_mode, m.evaluation_model>>

\* C24: whatever measure and a_measure calls have run or are running, every
\* metric has the threshold, strict_mode, include_reason, async_mode and
\* evaluation_model that its constructor gave it.
C24_ConfigurationReadOnly ==
    \A m \in DOMAIN metric : Configuration(metric[m]) = Configuration(caller.made[m])

\* a_measure on one metric and measure on the other have both returned, on
\* metrics whose threshold the constructor took from strict_mode
C24_Witness ==
    /\ caller.pc = "returned" /\ task[1].st = "done"
    /\ metric[1].success # <<>> /\ metric[2].success # <<>>
    /\ metric[1].strict_mode /\ metric[1].threshold # <<1, 2>>

----------------------------------------------------------------------------
(* A failure in a gather.                                                  *)

\* coroutine s of task t is still scheduled: it is ready, it awaits the
\* judge, or it awaits a gather whose tasks are all over
Scheduled(t, s) ==
    \/ StateOf(t, s) \in {"ready", "io"}
    \/ /\ StateOf(t, s) = "join"
       /\ \A c \in ChildrenOf(t, s) : task[t].sub[c].st \in {"done", "failed"}

----------------------------------------------------------------------------
(* What a normal return of the orchestrator means.                         *)

\* metric m holds the cached result, and its evaluation never started
AdoptedCache(m) ==
    /\ metric[m].score = The(Cached(m)).score
    /\ metric[m].success = The(Cached(m)).success
    /\ metric[m].reason = The(Cached(m)).reason
    /\ calls[m] = EmptyBag
    /\ task[m].ctx = [v \in DOMAIN task[m].ctx |-> <<>>]

\* the evaluation of metric m went to the end of its pipeline
RanToDone(m) ==
    /\ task[m].st = "done"
    /\ \A s \in SubNames : task[m].sub[s].st \in {"idle", "done"}
    /\ metric[m].score # <<>> /\ task[m].ret = metric[m].score
    /\ metric[m].success # <<>>
    /\ Called(m, "reason") /\ metric[m].reason # <<>>

\* C26: when a call of measure_metrics_with_indicator has returned normally,
\* every metric it was given either holds its cached result, without an
\* evaluation, or its evaluation ran to the end: none was left out, and none
\* is still running; in whatever order the evaluations finished.
C26_ReturnMeansAllDone ==
    \A m \in DOMAIN metric :
        OrchReturned(m) => IF Cached(m) # <<>> THEN AdoptedCache(m) ELSE RanToDone(m)

\* both calls have returned, each with a metric that was cached and one that
\* was evaluated
C26_Witness ==
    /\ caller.pc = "returned"
    /\ Cached(1) # <<>> /\ AdoptedCache(1) /\ AdoptedCache(Twin(1))
    /\ Cached(2) = <<>> /\ RanToDone(2) /\ RanToDone(Twin(2))

\* the second evaluation is over before the first
C26_WitnessOrder ==
    /\ caller.pc = "indicator_gather"
    /\ task[2].st = "done" /\ calls[2] # EmptyBag
    /\ task[1].st \in {"io", "join"}

----------------------------------------------------------------------------
(* Evaluations without a reason.                                           *)

\* the evaluation of metric m is over and has returned: a_measure on metric
\* 1, measure on metric 2
ReturnedFrom(m) == IF m = 1 THEN task[1].st = "done" ELSE caller.pc = "returned"

\* what the same metric yields for the test case when it is made with include_reason
WithReason(m) == Measure_sync([caller.made[m] EXCEPT !.include_reason = TRUE], 1)

\* C27: a metric made with include_reason false sends no reason prompt and its
\* reason stays None, in a_measure and in measure; the score is the one that
\* the metric made with include_reason yields, and success is the score
\* compared with the threshold (at most the threshold for Bias, at least
\* the threshold for the others).
C27_NoReasonStage ==
    \A m \in {1, 2} :
        ~caller.made[m].include_reason =>
            /\ ~Called(m, "reason")
            /\ metric[m].reason = <<>>
            /\ ReturnedFrom(m) =>
                  /\ metric[m].score # <<>>
                  /\ metric[m].score = WithReason(m).metric.score
                  /\ LET score == metric[m].score[1]
                         threshold == metric[m].threshold
                     IN  metric[m].success =
                            IF metric[m].kind = "Bias"
                            THEN <<score[1] * threshold[2] <= threshold[1] * score[2]>>
                            ELSE <<score[1] * threshold[2] >= threshold[1] * score[2]>>

\* both evaluations have returned without a reason, one passing judgement on
\* some verdicts
C27_Witness ==
    /\ ~caller.made[1].include_reason
    /\ ReturnedFrom(1) /\ ReturnedFrom(2)
    /\ Called(1, "verdicts") /\ Called(2, "verdicts")
    /\ metric[1].success = <<TRUE>> /\ metric[1].reason = <<>> /\ metric[2].reason = <<>>

----------------------------------------------------------------------------
(* The analytics event.                                                    *)

\* the last call of track failed: APIEvent rejected the fields, the request
\* raised, or its result had no event id
TrackFailed ==
    \/ ~caller.env[1].valid
    \/ caller.env[1].result \notin EventIds
TrackError ==
    IF ~caller.env[1].valid THEN "ValidationError"
    ELSE IF caller.env[1].result = "raises" THEN "RequestError" ELSE "KeyError"

\* C28: track returns the event id when the event was posted.  When it fails:
\* with fail_silently it returns nothing, prints nothing and raises nothing,
\* whatever raise_expection says; otherwise with raise_expection it raises
\* the error and prints nothing; otherwise it prints the error and returns
\* nothing.
C28_TrackFailurePolicy ==
    caller.n > 0 =>
        LET out == caller.out[1]
            printed == SubSeq(caller.stdout, Len(caller.before) + 1, Len(caller.stdout))
        IN  /\ SubSeq(caller.stdout, 1, Len(caller.before)) = caller.before
            /\ ~TrackFailed =>
                  out.ret = <<caller.env[1].result>> /\ out.raised = <<>> /\ printed = <<>>
            /\ (TrackFailed /\ caller.fail_silently) =>
                  out.ret = <<>> /\ out.raised = <<>> /\ printed = <<>>
            /\ (TrackFailed /\ ~caller.fail_silently /\ caller.raise_expection) =>
                  out.ret = <<>> /\ out.raised = <<TrackError>> /\ printed = <<>>
            /\ (TrackFailed /\ ~caller.fail_silently /\ ~caller.raise_expection) =>
                  out.ret = <<>> /\ out.raised = <<>> /\ printed = <<TrackError>>

\* a call with fail_silently and raise_expection has failed, after a call
\* that printed its error
C28_Witness ==
    /\ caller.n = 2 /\ TrackFailed
    /\ caller.fail_silently /\ caller.raise_expection
    /\ caller.before # <<>> /\ caller.stdout = caller.before
    /\ caller.out[1].raised = <<>>

----------------------------------------------------------------------------
(* The end of an evaluation.                                               *)

\* what evaluation t returned is the score of its own verdicts: for
\* Summarization the smaller of the two sub-scores that its own task wrote,
\* for the others the score that its test case gets from a fresh metric
FromOwnVerdicts(t) ==
    IF KindOf(t) = "Summarization"
    THEN LET a == task[t].ctx["alignment_score"][1]
             c == task[t].ctx["coverage_score"][1]
         IN  /\ a.by = t /\ c.by = t
             /\ task[t].ret = <<IF c.v[1] * a.v[2] < a.v[1] * c.v[2] THEN c.v ELSE a.v>>
    ELSE task[t].ret = Measure_sync(caller.made[1], task[t].tc).ret

\* evaluation t returns in this step
Returns(t) == task[t].st # "done" /\ task'[t].st = "done"

\* C29: what a gathered evaluation has returned is the score of its own
\* verdicts, and in the step in which it returns the metric's score is that
\* value and the metric's success is that value compared with the
\* threshold: no other evaluation of the metric runs between the write of
\* the score and the return.
C29_ScoreAndSuccessOwn ==
    /\ [](\A t \in DOMAIN task : task[t].st = "done" => FromOwnVerdicts(t))
    /\ [][\A t \in DOMAIN task :
             Returns(t) =>
                 /\ task'[t].ret # <<>>
                 /\ metric'[1].score = task'[t].ret
                 /\ LET score == task'[t].ret[1]
                        threshold == metric[1].threshold
                    IN  metric'[1].success =
                           IF metric[1].kind = "Bias"
                           THEN <<score[1] * threshold[2] <= threshold[1] * score[2]>>
                           ELSE <<score[1] * threshold[2] >= threshold[1] * score[2]>>]_vars

\* two gathered evaluations have returned different scores, one passing and
\* one not; the metric holds the outcome of the first, which returned last
C29_Witness ==
    /\ task[1].st = "done" /\ task[2].st = "done"
    /\ task[1].ret # task[2].ret
    /\ metric[1].score = task[1].ret
    /\ metric[1].success = <<TRUE>>
    /\ LET score == task[2].ret[1]
           threshold == metric[1].threshold
       IN  IF metric[1].kind = "Bias"
           THEN score[1] * threshold[2] > threshold[1] * score[2]
           ELSE score[1] * threshold[2] < threshold[1] * score[2]

----------------------------------------------------------------------------
(* The cost of an evaluation.                                              *)

\* C30: with a judge that reports costs (every call costs 1), when an
\* evaluation returns the metric's evaluation_cost is the number of prompts
\* that this evaluation has sent; with a judge that reports none, the
\* evaluation_cost is None all along.
C30_CostOfOwnCalls ==
    /\ [](\A m \in DOMAIN metric :
            ~metric[m].using_native_model => metric[m].evaluation_cost = <<>>)
    /\ [][\A t \in DOMAIN task :
             (Returns(t) /\ metric[task[t].m].using_native_model) =>
                 metric'[task[t].m].evaluation_cost = <<BagCardinality(calls'[t])>>]_vars

----------------------------------------------------------------------------
(* Status after a cache hit.                                               *)

\* the caller asked metric 2 after a cache hit had filled it in
AskedAfterHit ==
    /\ caller.pc = "cached" /\ caller.seen[2] # <<>>
    /\ caller.seen[2][1].score # <<>>

\* C31: after a cache hit, with or without indicator, is_successful() on the
\* metric returns the success value of the cached entry, whatever the entry
\* and whatever threshold the metric is configured with.
C31_HitStatusIsCached ==
    AskedAfterHit => caller.answer[2] = caller.seen[2][1].success

\* the hit without indicator, which adopts the threshold of the entry, of an
\* entry whose success is the comparison of its score and its threshold:
\* is_successful() returns the cached success
C31_PlainHitStatusIsCached ==
    AskedAfterHit =>
        \A md \in StoredMetadata(caller.made[2]) :
            caller.seen[2][1] = AdoptAll(caller.made[2], md) =>
                caller.answer[2] = md.success

----------------------------------------------------------------------------
(* The pairing of the answers.                                             *)

\* _a_generate_coverage_verdicts of task t has ended, and both calls of
\* _a_generate_answers had returned their lists
CoverageEnded(t) ==
    /\ metric[task[t].m].kind = "Summarization"
    /\ task[t].sub["coverage"].st \in {"done", "failed"}
    /\ task[t].sub["ans_original"].st = "done"
    /\ task[t].sub["ans_summary"].st = "done"

\* verdict i pairs the i-th answers and the i-th question
IsPairing(verdicts, original_answers, summary_answers, questions) ==
    /\ Len(verdicts) = Len(original_answers)
    /\ \A i \in 1..Len(verdicts) :
          verdicts[i] = [summary_verdict |-> summary_answers[i],
                         original_verdict |-> original_answers[i],
                         question |-> questions[i]]

\* what task t got, when its coverage stage ended, for lists of equal length
\* that fulfil Within
CoveragePaired(t, Within) ==
    LET original_answers == task[t].sub["ans_original"].res
        summary_answers == task[t].sub["ans_summary"].res
        questions == The(metric[task[t].m].assessment_questions)
    IN  (/\ CoverageEnded(t)
         /\ Len(original_answers) = Len(summary_answers)
         /\ Within[<<Len(original_answers), Len(questions)>>]) =>
            /\ task[t].sub["coverage"].st = "done"
            /\ IsPairing(task[t].sub["coverage"].res, original_answers, summary_answers,
                         questions)

\* the blocking measure() of metric 2 got as far as _generate_coverage_verdicts,
\* and both calls of _generate_answers returned their lists
SyncCoverageEnded ==
    /\ caller.pc \in {"returned", "raised"} /\ ~metric[2].async_mode
    /\ metric[2].kind = "Summarization"
    /\ check_llm_test_case_params(1, "Summarization")
    /\ \A stage \in {"truths", "claims", "questions", "answers"} : IsNone(Load(1, stage))

\* ... and what it got
SyncCoveragePaired(Within) ==
    LET questions == The(metric[2].assessment_questions)
        original_answers == Judge(world, AnswersPrompt(questions, TestCase(1).input))
        summary_answers == Judge(world, AnswersPrompt(questions, TestCase(1).actual_output))
    IN  (/\ SyncCoverageEnded
         /\ Len(original_answers) = Len(summary_answers)
         /\ Within[<<Len(original_answers), Len(questions)>>]) =>
            /\ caller.exc # Some("IndexError")
            /\ ~IsNone(caller.ctx.coverage_verdicts)
            /\ IsPairing(The(caller.ctx.coverage_verdicts), original_answers,
                         summary_answers, questions)

AnyLengths == [p \in (0..(MaxQuestions + 2)) \X (0..(MaxQuestions + 2)) |-> TRUE]
AnswersWithinQuestions ==
    [p \in (0..(MaxQuestions + 2)) \X (0..(MaxQuestions + 2)) |-> p[1] <= p[2]]

\* C32: whenever the two answer lists have the same length n, the coverage
\* stage succeeds with exactly n verdicts, verdict i pairing original answer
\* i, summary answer i and assessment question i, in a_measure and in
\* measure(); it fails with no other error than the length mismatch, however
\* many assessment questions there are.
C32_CoveragePairing ==
    /\ \A t \in DOMAIN task : CoveragePaired(t, AnyLengths)
    /\ SyncCoveragePaired(AnyLengths)

\* the same for lists that are not longer than the list of questions
C32_CoveragePairingWithinQuestions ==
    /\ \A t \in DOMAIN task : CoveragePaired(t, AnswersWithinQuestions)
    /\ SyncCoveragePaired(AnswersWithinQuestions)

\* two answers about each text to three questions: paired with the first two
C32_WitnessFewer ==
    /\ CoverageEnded(1) /\ task[1].sub["coverage"].st = "done"
    /\ Len(task[1].sub["coverage"].res) = 2
    /\ Len(The(metric[1].assessment_questions)) = 3
    /\ SyncCoverageEnded /\ caller.pc = "returned"

----------------------------------------------------------------------------
(* What the reason of a summarization is told.                             *)

\* a coverage pair that the coverage score counts in its denominator and not
\* in its numerator
CountsAgainst(v) == v.original_verdict \in YesLabels /\ v.summary_verdict \notin YesLabels
\* ... and one whose summary verdict is no
AnsweredNo(v) == v.original_verdict \in YesLabels /\ v.summary_verdict \in NoLabels
SaysNo(v) == v.verdict \in NoLabels
SaysIdk(v) == Label(v.verdict) = idk
QuestionsOf(pairs) == [i \in 1..Len(pairs) |-> pairs[i].question]

\* the reason prompts that the evaluation of metric m has sent
ReasonPrompts(m) == {p \in BagToSet(calls[m]) : p.stage = "reason"}

\* the alignment verdicts that the reason prompt of metric m carries are those
\* that say no (the contradictions) and those that say idk (the redundancies)
ReasonAlignment(m, p) ==
    LET av == The(ContextOf(m)["alignment_verdicts"])
    IN  /\ p.items = Reasons(SelectSeq(av, SaysNo))
        /\ p.extra = Reasons(SelectSeq(av, SaysIdk))

\* C33: the questions in the reason prompt of a summarization are exactly the
\* questions of the coverage pairs that count against the coverage score
\* (original verdict yes, summary verdict not yes), and its alignment
\* verdicts are exactly those that say no or idk.
C33_ReasonOfUncovered ==
    \A m \in {1, 2} :
        metric[m].kind = "Summarization" =>
            \A p \in ReasonPrompts(m) :
                /\ p.more = QuestionsOf(SelectSeq(The(ContextOf(m)["coverage_verdicts"]),
                                                  CountsAgainst))
                /\ ReasonAlignment(m, p)

\* the questions in the reason prompt are those of the pairs whose summary
\* verdict is no
C33_ReasonOfAnsweredNo ==
    \A m \in {1, 2} :
        metric[m].kind = "Summarization" =>
            \A p \in ReasonPrompts(m) :
                /\ p.more = QuestionsOf(SelectSeq(The(ContextOf(m)["coverage_verdicts"]),
                                                  AnsweredNo))
                /\ ReasonAlignment(m, p)

----------------------------------------------------------------------------
(* The score breakdown of a summarization.                                 *)

\* the alignment and coverage scores that the evaluation of metric m computed
BreakdownOf(m) ==
    [Alignment |-> The(ContextOf(m)["alignment_score"]),
     Coverage |-> The(ContextOf(m)["coverage_score"])]

\* C34: after a_measure (metric 1) or measure(), blocking or not (metric 2),
\* has returned, score_breakdown of a Summarization metric holds the alignment
\* and coverage scores of that evaluation.
C34_BreakdownOfEvaluation ==
    \A m \in {1, 2} :
        (metric[m].kind = "Summarization" /\ ReturnedFrom(m)) =>
            metric[m].score_breakdown = Some(BreakdownOf(m))

\* the same for the blocking measure() alone
C34_BlockingBreakdown ==
    (metric[2].kind = "Summarization" /\ ReturnedFrom(2) /\ ~metric[2].async_mode) =>
        metric[2].score_breakdown = Some(BreakdownOf(2))

\* a_measure, and measure() through the loop, leave score_breakdown as the
\* constructor left it
C34_AsyncLeavesBreakdown ==
    \A m \in {1, 2} :
        (metric[m].kind = "Summarization" /\ (m = 1 \/ metric[m].async_mode)) =>
            metric[m].score_breakdown = caller.made[m].score_breakdown

----------------------------------------------------------------------------
(* Nothing to pass judgement on.                                           *)

\* the list that the verdict stage of metric m passes judgement on, and the
\* list of verdicts it yields
ExtractedVar(m) == IF metric[m].kind = "Bias" THEN "opinions" ELSE "claims"
VerdictsVar(m) == IF metric[m].kind = "Summarization" THEN "alignment_verdicts" ELSE "verdicts"

\* the extraction stage of the evaluation of metric m yielded an empty list
ExtractedNothing(m) == ContextOf(m)[ExtractedVar(m)] = Some(<<>>)

\* the judge answers every prompt well, except perhaps a verdicts prompt
OnlyVerdictsFail ==
    /\ world[1].short = "none"
    /\ IsNone(world[1].fault) \/ The(world[1].fault).stage = "verdicts"

\* the score of a metric of this kind that has no verdicts
EmptyDefault(kind) == IF kind = "Faithfulness" THEN One ELSE Zero

\* C35: when the extraction stage yields an empty list, the verdict stage
\* sends no prompt to the judge and yields an empty list of verdicts, so a
\* judge that fails on verdicts prompts does not end the evaluation; the
\* evaluation returns with the score of no verdicts: 0 for Bias, 1 for
\* Faithfulness, alignment score 0 (and so score 0) for Summarization.
C35_NothingExtracted ==
    \A m \in {1, 2} :
        ExtractedNothing(m) =>
            /\ ~Called(m, "verdicts")
            /\ ContextOf(m)[VerdictsVar(m)] \in {None, Some(<<>>)}
            /\ OnlyVerdictsFail => ~Aborted(m)
            /\ ReturnedFrom(m) =>
                  /\ ContextOf(m)[VerdictsVar(m)] = Some(<<>>)
                  /\ metric[m].kind = "Summarization" =>
                        ContextOf(m)["alignment_score"] = Some(Zero)
                  /\ metric[m].score = Some(EmptyDefault(metric[m].kind))

\* a_measure and the blocking measure() have returned from a judge that found
\* nothing and that fails on verdicts prompts
C35_Witness ==
    /\ world[1].labels = <<>> /\ ~IsNone(world[1].fault)
    /\ ExtractedNothing(1) /\ ExtractedNothing(2)
    /\ ReturnedFrom(1) /\ ReturnedFrom(2) /\ ~metric[2].async_mode
    /\ metric[1].score = Some(EmptyDefault(metric[1].kind))

\* ... in strict mode, for a Faithfulness metric, through the loop
C35_WitnessStrict ==
    /\ metric[2].kind = "Faithfulness" /\ metric[2].strict_mode /\ metric[2].async_mode
    /\ ExtractedNothing(2) /\ ReturnedFrom(2) /\ metric[2].score = Some(One)

----------------------------------------------------------------------------
(* Termination.                                                            *)

\* every evaluation that was started has returned or raised
AllEnded == \A t \in DOMAIN task : task[t].st \in {"idle", "done", "failed"}

\* C36: when every call of the judge returns and the loop runs what is ready,
\* every evaluation that measure_metrics_with_indicator starts ends, done or
\* failed, and measure_metrics_with_indicator returns to its caller or raises.
C36_Terminates ==
    <>[](caller.pc \in {"returned", "raised"} /\ AllEnded)

\* every step is taken in a state in which the fairness condition of
\* SpecOrchFair counts a step as possible
C36_StepsWherePossible == [][Runnable \/ OrchCanStep]_vars

\* the same for `await metric.a_measure(tc)` followed by metric.measure(tc),
\* blocking or through the loop
C36_MeasureTerminates ==
    <>[](/\ caller.pc \in {"returned", "raised"}
         /\ task[1].st \in {"done", "failed"}
         /\ task[2].st \in {"idle", "done", "failed"})

\* the orchestrator has returned after evaluations that called the judge, in
\* both of its paths
C36_Witness ==
    /\ caller.pc = "returned" /\ AllEnded
    /\ \E t \in MetricIds : task[t].st = "done" /\ Called(t, "reason")
    /\ \E t \in DOMAIN task \ MetricIds : task[t].st = "done" /\ Called(t, "reason")

\* the orchestrator has raised, and the evaluations it had started have ended,
\* one of them done
C36_WitnessRaised ==
    /\ caller.pc = "raised" /\ AllEnded
    /\ \E t \in DOMAIN task : task[t].st = "failed"
    /\ \E t \in DOMAIN task : task[t].st = "done" /\ Called(t, "reason")

====
